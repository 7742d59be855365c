---------------------------- MODULE VpnKeysProofs ----------------------------
(***************************************************************************)
(* Theorems about VpnKeys and its history, for every set of users, bot     *)
(* threads and uuids, every number of subscriptions and of overlapping     *)
(* operations, and every choice of what may fail; NoForeignKeyCorrect      *)
(* alone is about agents that answer and processes that live.              *)
(***************************************************************************)
EXTENDS KeyHistory, SequenceTheorems, FiniteSetTheorems, TLAPS

-----------------------------------------------------------------------------
(* The table of subscriptions.                                             *)

\* Closing rows keeps the table a sequence of subscriptions of the same length
\* and changes nothing but the status of the rows it names.
LEMMA WithExpiredFacts ==
  ASSUME subs \in Seq(Subscription), NEW ids
  PROVE  /\ WithExpired(ids) \in Seq(Subscription)
         /\ Len(WithExpired(ids)) = Len(subs)
         /\ \A s \in DOMAIN subs :
              /\ WithExpired(ids)[s].user = subs[s].user
              /\ WithExpired(ids)[s].product = subs[s].product
              /\ WithExpired(ids)[s].over = subs[s].over
              /\ WithExpired(ids)[s].status =
                   IF s \in ids THEN "expired" ELSE subs[s].status
<1> DEFINE w == WithExpired(ids)
<1>1. /\ Len(subs) \in Nat
      /\ DOMAIN subs = 1..Len(subs)
      /\ subs \in [1..Len(subs) -> Subscription]
  BY LenProperties
<1>2. w \in [1..Len(subs) -> Subscription]
  BY <1>1 DEF WithExpired, Subscription
<1>3. w \in Seq(Subscription)
  <2> HIDE DEF w
  <2> QED BY <1>1, <1>2, SeqDef
<1>4. Len(w) = Len(subs)
  <2>1. DOMAIN w = 1..Len(subs)
    BY <1>1 DEF WithExpired
  <2> HIDE DEF w
  <2> QED BY <1>1, <1>3, <2>1, LenProperties
<1>5. \A s \in DOMAIN subs :
        w[s] = IF s \in ids THEN [subs[s] EXCEPT !.status = "expired"]
                            ELSE subs[s]
  BY DEF WithExpired
<1>6. \A s \in DOMAIN subs : subs[s] \in Subscription
  BY <1>1
<1> HIDE DEF w
<1>7. \A s \in DOMAIN subs :
              /\ w[s].user = subs[s].user
              /\ w[s].product = subs[s].product
              /\ w[s].over = subs[s].over
              /\ w[s].status = IF s \in ids THEN "expired" ELSE subs[s].status
  BY <1>5, <1>6 DEF Subscription
<1> QED BY <1>3, <1>4, <1>7 DEF w

\* What an activation does to the table: it closes the rows it replaces and
\* appends the new one.
LEMMA ActivateSubs ==
  ASSUME subs \in Seq(Subscription), NEW u \in Users, NEW p \in Products,
         Activate(u, p)
  PROVE  /\ subs' \in Seq(Subscription)
         /\ Len(subs') = Len(subs) + 1
         /\ subs'[Len(subs) + 1] = NewSubscription(u, p)
         /\ \A s \in DOMAIN subs :
              /\ s \in DOMAIN subs'
              /\ subs'[s].user = subs[s].user
              /\ subs'[s].product = subs[s].product
              /\ subs'[s].over = subs[s].over
              /\ subs'[s].status =
                   IF s \in Replaced(u, p) THEN "expired" ELSE subs[s].status
         /\ DOMAIN subs' = DOMAIN subs \union {Len(subs) + 1}
<1> DEFINE w == WithExpired(Replaced(u, p))
           n == NewSubscription(u, p)
<1>1. subs' = Append(w, n)
  BY DEF Activate
<1>2. n \in Subscription
  BY DEF NewSubscription, Subscription
<1>3. /\ w \in Seq(Subscription)
      /\ Len(w) = Len(subs)
      /\ Len(subs) \in Nat
      /\ DOMAIN subs = 1..Len(subs)
  BY WithExpiredFacts, LenProperties
<1>4. \A s \in DOMAIN subs :
              /\ w[s].user = subs[s].user
              /\ w[s].product = subs[s].product
              /\ w[s].over = subs[s].over
              /\ w[s].status =
                   IF s \in Replaced(u, p) THEN "expired" ELSE subs[s].status
  BY WithExpiredFacts
<1> HIDE DEF w, n
<1>5. /\ subs' \in Seq(Subscription)
      /\ Len(subs') = Len(subs) + 1
      /\ subs'[Len(subs) + 1] = n
      /\ \A s \in 1..Len(subs) : subs'[s] = w[s]
  BY <1>1, <1>2, <1>3
<1>6. DOMAIN subs' = 1..(Len(subs) + 1)
  BY <1>5, LenProperties
<1> QED BY <1>3, <1>4, <1>5, <1>6 DEF n

\* The clock changes one flag of one row.
LEMMA LapseSubs ==
  ASSUME subs \in Seq(Subscription), NEW i \in DOMAIN subs, Lapse(i)
  PROVE  /\ subs' \in Seq(Subscription)
         /\ DOMAIN subs' = DOMAIN subs
         /\ \A s \in DOMAIN subs :
              /\ subs'[s].user = subs[s].user
              /\ subs'[s].product = subs[s].product
              /\ subs'[s].status = subs[s].status
<1>1. /\ Len(subs) \in Nat
      /\ DOMAIN subs = 1..Len(subs)
      /\ subs \in [1..Len(subs) -> Subscription]
  BY LenProperties
<1>2. subs' = [subs EXCEPT ![i] = [subs[i] EXCEPT !.over = TRUE]]
  BY DEF Lapse
<1>3. [subs[i] EXCEPT !.over = TRUE] \in Subscription
  BY <1>1 DEF Subscription
<1>4. subs' \in [1..Len(subs) -> Subscription]
  BY <1>1, <1>2, <1>3
<1>5. subs' \in Seq(Subscription)
  BY <1>1, <1>4, SeqDef
<1> QED BY <1>1, <1>2, <1>5 DEF Subscription

-----------------------------------------------------------------------------
(* Type correctness.  TypeOK is not inductive: the uuid that a completed    *)
(* regeneration retires comes from the row the worker has loaded, which is  *)
(* a uuid only because the worker went through the steps that require one.  *)

\* An operation works for a user; one that deletes, restores or shows a row has loaded one; one that
\* has provisioned a client knows its uuid; only an uncommitted replacement
\* holds a lock.
OpShape(o) ==
  /\ o.step # "idle" => o.user \in Users
  /\ o.held => o.step \in {"create", "created"}
  /\ o.held \/ o.step \in {"sync", "restore", "restored", "revoke", "delete"}
       => o.row \in Keys
  /\ o.step \in {"created", "undo"} => o.uuid \in Keys

DeviceShape(d) == d = NoDevice \/ (d.uuid \in Keys /\ d.status # "none")

\* The invariant in four parts; an action that leaves the variables of a part
\* alone keeps that part.
TablesOK ==
  /\ subs \in Seq(Subscription)
  /\ device \in [Users -> Device]
  /\ \A u \in Users : DeviceShape(device[u])
UuidsOK ==
  /\ xray \in [Users -> Keys \union {NoKey}]
  /\ used \subseteq Keys
  /\ retired \subseteq Keys
WorkersOK ==
  /\ op \in [Workers -> Op]
  /\ \A w \in Workers : OpShape(op[w])
JobsOK ==
  /\ sweep \in Sweep
  /\ poll \in Poll
  /\ \A u \in poll.bad : poll.rows[u] \in Keys
TypeInv == TablesOK /\ UuidsOK /\ WorkersOK /\ JobsOK

\* The invariant proved below contains the type invariant.
LEMMA TypeInvImpliesTypeOK == TypeInv => TypeOK
BY DEF TypeInv, TypeOK, TablesOK, UuidsOK, WorkersOK, JobsOK

\* The empty tables of the initial state are well-typed.
LEMMA TypeInvInit == Init => TypeInv
<1> SUFFICES ASSUME Init PROVE TypeInv
  OBVIOUS
<1>1. subs \in Seq(Subscription)
  BY EmptySeq DEF Init
<1>2. /\ device \in [Users -> Device]
      /\ \A u \in Users : DeviceShape(device[u])
  BY DEF Init, Device, NoDevice, DeviceShape
<1>3. /\ op \in [Workers -> Op]
      /\ \A w \in Workers : OpShape(op[w])
  BY DEF Init, Op, Step, Idle, OpShape
<1>4. /\ sweep \in Sweep
      /\ poll \in Poll
      /\ poll.bad = {}
  BY DEF Init, NoSweep, NoPoll, Sweep, Poll, NoRows, Rows
<1>5. /\ xray \in [Users -> Keys \union {NoKey}]
      /\ used \subseteq Keys
      /\ retired \subseteq Keys
  BY DEF Init
<1> QED BY <1>1, <1>2, <1>3, <1>4, <1>5
  DEF TypeInv, TablesOK, UuidsOK, WorkersOK, JobsOK

\* A worker that moves to a well-formed step leaves all of op well-formed.
LEMMA OpUpdate ==
  ASSUME TypeInv, NEW w \in Workers, NEW o \in Op, OpShape(o), Becomes(w, o)
  PROVE  /\ op' \in [Workers -> Op]
         /\ \A v \in Workers : OpShape(op'[v])
         /\ op'[w] = o
         /\ \A v \in Workers \ {w} : op'[v] = op[v]
BY DEF TypeInv, WorkersOK, Becomes

\* The record of a worker that does nothing is a proper one.
LEMMA IdleOp == Idle \in Op /\ OpShape(Idle)
BY DEF Idle, Op, Step, OpShape

\* The agent's table keeps its type whatever it is asked.
LEMMA AgentType ==
  ASSUME TypeInv, NEW ok \in BOOLEAN,
         \/ \E u \in Users, k \in Keys : AddUser(u, k, ok)
         \/ \E k : RemoveUser(k, ok)
  PROVE  xray' \in [Users -> Keys \union {NoKey}]
BY DEF TypeInv, UuidsOK, AddUser, RemoveUser, Without

\* The fields of a worker's record have their types.
LEMMA OpFields ==
  ASSUME TypeInv, NEW w \in Workers
  PROVE  /\ op[w] \in Op
         /\ op[w].step \in Step
         /\ op[w].user \in Users \union {Nobody}
         /\ op[w].sub \in Nat
         /\ op[w].row \in Keys \union {NoKey}
         /\ op[w].uuid \in Keys \union {NoKey}
         /\ op[w].held \in BOOLEAN
         /\ OpShape(op[w])
BY DEF TypeInv, WorkersOK, Op

\* A step that touches no table keeps the tables typed.
LEMMA TablesUnchanged ==
  TablesOK /\ UNCHANGED <<subs, device>> => TablesOK'
BY DEF TablesOK, DeviceShape

\* A step that makes no uuid keeps the set of those in use typed.
LEMMA UuidsUnchanged ==
  UuidsOK /\ UNCHANGED <<xray, used, retired>> => UuidsOK'
BY DEF UuidsOK

\* A step that leaves the workers alone keeps their records typed.
LEMMA WorkersUnchanged == WorkersOK /\ UNCHANGED op => WorkersOK'
BY DEF WorkersOK, OpShape

\* A step that leaves the two jobs alone keeps their records typed.
LEMMA JobsUnchanged == JobsOK /\ UNCHANGED <<sweep, poll>> => JobsOK'
BY DEF JobsOK

\* The bound on the table of subscriptions makes its domain a set of numbers.
LEMMA DomainIsNat ==
  ASSUME TypeInv, NEW s \in DOMAIN subs
  PROVE  s \in Nat /\ s # 0 /\ subs[s] \in Subscription
<1>1. /\ Len(subs) \in Nat
      /\ DOMAIN subs = 1..Len(subs)
      /\ subs \in [1..Len(subs) -> Subscription]
  BY LenProperties DEF TypeInv, TablesOK
<1> QED BY <1>1

\* Type correctness of fulfill_payment.
LEMMA TypeActivate ==
  ASSUME TypeInv, NEW u \in Users, NEW p \in Products, Activate(u, p)
  PROVE  TypeInv'
<1>1. subs \in Seq(Subscription)
  BY DEF TypeInv, TablesOK
<1>2. subs' \in Seq(Subscription)
  BY <1>1, ActivateSubs
<1>3. Len(subs) + 1 \in Nat
  BY <1>1, LenProperties
<1>4. /\ device' \in [Users -> Device]
      /\ \A v \in Users : DeviceShape(device'[v])
  <2>1. CASE ~TakesOverDevice(u, p)
    BY <2>1 DEF TypeInv, TablesOK, Activate
  <2>2. CASE TakesOverDevice(u, p)
    <3>1. device' = [device EXCEPT ![u].sub = Len(subs) + 1]
      BY <2>2 DEF Activate
    <3>2. device[u] # NoDevice
      <4>1. device[u].sub \in DOMAIN subs
        BY <2>2 DEF TakesOverDevice, Replaced
      <4> QED BY <4>1, DomainIsNat DEF NoDevice
    <3> QED BY <1>3, <3>1, <3>2 DEF TypeInv, TablesOK, Device, DeviceShape
  <2> QED BY <2>1, <2>2
<1>5. WorkersOK'
  <2> DEFINE o == [Idle EXCEPT !.step = "start", !.user = u]
  <2>1. o \in Op /\ OpShape(o)
    BY DEF Idle, Op, Step, OpShape
  <2>2. CASE p \in VpnLine
    <3>1. Becomes(Web, o)
      BY <2>2 DEF Activate
    <3> HIDE DEF o
    <3> QED BY <2>1, <3>1, OpUpdate DEF WorkersOK, Workers
  <2>3. CASE p \notin VpnLine
    BY <2>3, WorkersUnchanged DEF Activate, TypeInv
  <2> QED BY <2>2, <2>3
<1>6. UuidsOK' /\ JobsOK'
  BY UuidsUnchanged, JobsUnchanged DEF Activate, TypeInv
<1> QED BY <1>2, <1>4, <1>5, <1>6 DEF TypeInv, TablesOK

\* Type correctness of the end of a subscription's time.
LEMMA TypeLapse ==
  ASSUME TypeInv, NEW s \in DOMAIN subs, Lapse(s)
  PROVE  TypeInv'
<1>1. TablesOK'
  BY LapseSubs DEF TypeInv, TablesOK, Lapse
<1>2. UuidsOK' /\ WorkersOK' /\ JobsOK'
  BY UuidsUnchanged, WorkersUnchanged, JobsUnchanged DEF Lapse, TypeInv
<1> QED BY <1>1, <1>2 DEF TypeInv

\* Steps that only read: ensure_vpn_key and regenerate_vpn_key load their rows.
LEMMA TypeLoads ==
  ASSUME TypeInv,
         \/ \E w \in Workers, u \in Users : EnsureVpnKey(w, u)
         \/ \E u \in Users : RegenerateVpnKey(u)
         \/ NoSubscription
  PROVE  TypeInv'
<1>1. TablesOK' /\ UuidsOK' /\ JobsOK'
  BY TablesUnchanged, UuidsUnchanged, JobsUnchanged
  DEF EnsureVpnKey, RegenerateVpnKey, NoSubscription, TypeInv
<1>2. WorkersOK'
  <2>1. ASSUME NEW w \in Workers, NEW u \in Users, EnsureVpnKey(w, u)
        PROVE  WorkersOK'
    <3>1. PICK s \in Current(u) :
            Becomes(w, [Idle EXCEPT !.step = EnsureStep(u, s), !.user = u, !.sub = s,
                                  !.row = device[u].uuid,
                                  !.from = device[u].sub])
      BY <2>1 DEF EnsureVpnKey
    <3> DEFINE o == [Idle EXCEPT !.step = EnsureStep(u, s), !.user = u, !.sub = s,
                                  !.row = device[u].uuid,
                                  !.from = device[u].sub]
    <3>2. s \in Nat
      BY DomainIsNat DEF Current
    <3>3. o.row \in Keys \union {NoKey} /\ o.from \in Nat
      BY DEF TypeInv, TablesOK, Device, Idle
    <3>4. /\ EnsureStep(u, s) \in {"sync", "restore", "create"}
          /\ EnsureStep(u, s) # "create" => device[u].uuid \in Keys
      BY DEF EnsureStep, FoundConsolidated, TypeInv, TablesOK, DeviceShape, NoDevice
    <3>5. o \in Op /\ OpShape(o)
      BY <3>2, <3>3, <3>4 DEF Idle, Op, Step, OpShape
    <3> HIDE DEF o
    <3> QED BY <3>1, <3>5, OpUpdate DEF WorkersOK, o
  <2>2. ASSUME NEW u \in Users, RegenerateVpnKey(u)
        PROVE  WorkersOK'
    <3>1. PICK s \in Current(u), x \in {"revoke", "create"} :
            /\ x = "revoke" => device[u].status = "active"
            /\ Becomes(Web, [Idle EXCEPT !.step = x, !.user = u, !.sub = s,
                                  !.row = device[u].uuid,
                                  !.from = device[u].sub])
      BY <2>2 DEF RegenerateVpnKey
    <3> DEFINE o == [Idle EXCEPT !.step = x, !.user = u, !.sub = s,
                                  !.row = device[u].uuid,
                                  !.from = device[u].sub]
    <3>2. s \in Nat
      BY DomainIsNat DEF Current
    <3>3. o.row \in Keys \union {NoKey} /\ o.from \in Nat
      BY DEF TypeInv, TablesOK, Device, Idle
    <3>4. x = "revoke" => device[u].uuid \in Keys
      BY <3>1 DEF TypeInv, TablesOK, DeviceShape, NoDevice
    <3>5. o \in Op /\ OpShape(o)
      BY <3>2, <3>3, <3>4 DEF Idle, Op, Step, OpShape
    <3> HIDE DEF o
    <3> QED BY <3>1, <3>5, OpUpdate DEF WorkersOK, Workers, o
  <2>3. ASSUME NoSubscription
        PROVE  WorkersOK'
    BY <2>3, OpUpdate, IdleOp DEF NoSubscription, WorkersOK, Workers
  <2> QED BY <2>1, <2>2, <2>3
<1> QED BY <1>1, <1>2 DEF TypeInv

\* Steps of an operation under way.
LEMMA TypeProceed ==
  ASSUME TypeInv, NEW w \in Workers, Proceed(w) \/ Crash(w)
  PROVE  TypeInv'
<1> DEFINE u == op[w].user
           becomes(x) == [op[w] EXCEPT !.step = x]
<1>1. /\ op[w] \in Op /\ OpShape(op[w])
      /\ op[w].step # "idle" => u \in Users
  BY OpFields DEF OpShape
<1>2. ASSUME NEW x \in {"restored", "delete"},
             op[w].step \in {"restore", "revoke"}
      PROVE  becomes(x) \in Op /\ OpShape(becomes(x))
  BY <1>1, <1>2 DEF Op, Step, OpShape
<1>3. CASE SyncDeviceToXray(w)
  <2>1. xray' \in [Users -> Keys \union {NoKey}]
    BY <1>1, <1>3, AgentType DEF SyncDeviceToXray, OpShape
  <2>2. WorkersOK'
    BY <1>3, OpUpdate, IdleOp DEF SyncDeviceToXray, WorkersOK
  <2> QED BY <1>3, <2>1, <2>2, TablesUnchanged, JobsUnchanged
          DEF SyncDeviceToXray, TypeInv, UuidsOK
<1>4. CASE RestoreVpnDevice(w)
  <2>1. xray' \in [Users -> Keys \union {NoKey}]
    BY <1>1, <1>4, AgentType DEF RestoreVpnDevice, OpShape
  <2>2. WorkersOK'
    <3>1. Becomes(w, becomes("restored")) \/ Becomes(w, Idle)
      BY <1>4 DEF RestoreVpnDevice
    <3>2. op[w].step = "restore"
      BY <1>4 DEF RestoreVpnDevice
    <3> QED BY <1>2, <3>1, <3>2, OpUpdate, IdleOp DEF WorkersOK
  <2> QED BY <1>4, <2>1, <2>2, TablesUnchanged, JobsUnchanged
          DEF RestoreVpnDevice, TypeInv, UuidsOK
<1>5. CASE RestoreCommit(w)
  <2>1. op[w].step = "restored" /\ op[w].row \in Keys /\ op[w].sub \in Nat
    BY <1>1, <1>5, OpFields DEF RestoreCommit, OpShape
  <2>2. CASE /\ device[u].uuid = op[w].row
             /\ device' = [device EXCEPT ![u] = Restored(@, op[w])]
             /\ Becomes(w, Idle)
    <3>1. Restored(device[u], op[w]) \in Device
          /\ DeviceShape(Restored(device[u], op[w]))
      BY <1>1, <2>1, <2>2
      DEF TypeInv, TablesOK, Device, DeviceShape, Restored
    <3>2. TablesOK'
      BY <1>5, <2>2, <3>1 DEF TypeInv, TablesOK, RestoreCommit
    <3>3. WorkersOK'
      BY <2>2, OpUpdate, IdleOp DEF WorkersOK
    <3> QED BY <1>5, <3>2, <3>3, UuidsUnchanged, JobsUnchanged
            DEF RestoreCommit, TypeInv
  <2>3. CASE /\ UNCHANGED device
             /\ Becomes(w, [op[w] EXCEPT !.step = "undo", !.uuid = op[w].row])
    <3> DEFINE o == [op[w] EXCEPT !.step = "undo", !.uuid = op[w].row]
    <3>1. o \in Op /\ OpShape(o)
      BY <1>1, <2>1 DEF Op, Step, OpShape
    <3>2. WorkersOK'
      <4> HIDE DEF o
      <4> QED BY <2>3, <3>1, OpUpdate DEF WorkersOK, o
    <3> QED BY <1>5, <2>3, <3>2, TablesUnchanged, UuidsUnchanged, JobsUnchanged
            DEF RestoreCommit, TypeInv
  <2> QED BY <1>5, <2>2, <2>3 DEF RestoreCommit
<1>6. CASE CreateVpnDevice(w)
  <2>1. PICK k \in Keys \ used, ok \in BOOLEAN :
          /\ AddUser(u, k, ok)
          /\ used' = used \union {k}
          /\ Becomes(w, IF ok THEN [op[w] EXCEPT !.step = "created", !.uuid = k]
                           ELSE Idle)
    BY <1>6 DEF CreateVpnDevice
  <2>2. xray' \in [Users -> Keys \union {NoKey}]
    BY <1>1, <1>6, <2>1, AgentType DEF CreateVpnDevice
  <2> DEFINE o == [op[w] EXCEPT !.step = "created", !.uuid = k]
  <2>3. op[w].step = "create"
    BY <1>6 DEF CreateVpnDevice
  <2>4. o \in Op /\ OpShape(o)
    BY <1>1, <2>3 DEF Op, Step, OpShape
  <2>5. WorkersOK'
    <3> HIDE DEF o
    <3> QED BY <2>1, <2>4, OpUpdate, IdleOp DEF WorkersOK, o
  <2> QED BY <1>6, <2>1, <2>2, <2>5, TablesUnchanged, JobsUnchanged
          DEF CreateVpnDevice, TypeInv, UuidsOK
<1>7. CASE CreateCommit(w)
  <2>1. /\ op[w].step = "created"
        /\ op[w].uuid \in Keys
        /\ op[w].sub \in Nat
        /\ op[w].held => op[w].row \in Keys
    BY <1>1, <1>7, OpFields DEF CreateCommit, OpShape
  <2>2. CASE /\ device' = [device EXCEPT ![u] = [uuid |-> op[w].uuid,
                                            sub |-> op[w].sub,
                                            status |-> "active"]]
             /\ retired' = IF op[w].held THEN retired \union {op[w].row}
                                         ELSE retired
             /\ Becomes(w, Idle)
    <3>1. TablesOK'
      BY <1>1, <1>7, <2>1, <2>2
      DEF TypeInv, TablesOK, Device, DeviceShape, CreateCommit
    <3>2. UuidsOK'
      BY <1>7, <2>1, <2>2 DEF TypeInv, UuidsOK, CreateCommit
    <3>3. WorkersOK'
      BY <2>2, OpUpdate, IdleOp DEF WorkersOK
    <3> QED BY <1>7, <3>1, <3>2, <3>3, JobsUnchanged DEF CreateCommit, TypeInv
  <2>3. CASE /\ UNCHANGED <<device, retired>>
             /\ Becomes(w, [op[w] EXCEPT !.step = "undo", !.held = FALSE])
    <3> DEFINE o == [op[w] EXCEPT !.step = "undo", !.held = FALSE]
    <3>1. o \in Op /\ OpShape(o)
      BY <1>1, <2>1 DEF Op, Step, OpShape
    <3>2. WorkersOK'
      <4> HIDE DEF o
      <4> QED BY <2>3, <3>1, OpUpdate DEF WorkersOK, o
    <3> QED BY <1>7, <2>3, <3>2, TablesUnchanged, UuidsUnchanged, JobsUnchanged
            DEF CreateCommit, TypeInv
  <2> QED BY <1>7, <2>2, <2>3 DEF CreateCommit
<1>8. CASE UndoProvision(w)
  <2>1. xray' \in [Users -> Keys \union {NoKey}]
    BY <1>8, AgentType DEF UndoProvision
  <2>2. WorkersOK'
    BY <1>8, OpUpdate, IdleOp DEF UndoProvision, WorkersOK
  <2> QED BY <1>8, <2>1, <2>2, TablesUnchanged, JobsUnchanged
          DEF UndoProvision, TypeInv, UuidsOK
<1>9. CASE RevokeOldKey(w)
  <2>1. xray' \in [Users -> Keys \union {NoKey}]
    BY <1>9, AgentType DEF RevokeOldKey
  <2>2. WorkersOK'
    <3>1. Becomes(w, becomes("delete")) \/ Becomes(w, Idle)
      BY <1>9 DEF RevokeOldKey
    <3>2. op[w].step = "revoke"
      BY <1>9 DEF RevokeOldKey
    <3> QED BY <1>2, <3>1, <3>2, OpUpdate, IdleOp DEF WorkersOK
  <2> QED BY <1>9, <2>1, <2>2, TablesUnchanged, JobsUnchanged
          DEF RevokeOldKey, TypeInv, UuidsOK
<1>10. CASE DeleteOldRow(w)
  <2> DEFINE o == [op[w] EXCEPT !.step = "create", !.held = TRUE]
  <2>1. o \in Op /\ OpShape(o)
    BY <1>1, <1>10 DEF Op, Step, OpShape, DeleteOldRow
  <2>2. Becomes(w, o) \/ Becomes(w, Idle)
    BY <1>10 DEF DeleteOldRow
  <2>3. WorkersOK'
    <3> HIDE DEF o
    <3> QED BY <2>1, <2>2, OpUpdate, IdleOp DEF WorkersOK
  <2> QED BY <1>10, <2>3, TablesUnchanged, UuidsUnchanged, JobsUnchanged
          DEF DeleteOldRow, TypeInv
<1>11. CASE Crash(w)
  <2>1. WorkersOK'
    BY <1>11, OpUpdate, IdleOp DEF Crash, WorkersOK
  <2> QED BY <1>11, <2>1, TablesUnchanged, UuidsUnchanged, JobsUnchanged
          DEF Crash, TypeInv
<1> QED BY <1>3, <1>4, <1>5, <1>6, <1>7, <1>8, <1>9, <1>10, <1>11 DEF Proceed

\* Type correctness of the three steps of expire_due_subscriptions.
LEMMA TypeExpiryJob ==
  ASSUME TypeInv, ExpiryJob \/ ExpireCrash
  PROVE  TypeInv'
<1>1. CASE ExpireLoad
  <2> DEFINE rows == [u \in Users |->
                 IF /\ device[u].status = "active"
                    /\ device[u].sub \in Due
                    /\ subs[device[u].sub].product \in VpnLine
                 THEN device[u].uuid ELSE NoKey]
  <2>1. rows \in Rows
    BY DEF TypeInv, TablesOK, Device, Rows
  <2>2. Due \in SUBSET Nat
    BY DomainIsNat DEF Due
  <2>3. sweep' = [busy |-> TRUE, due |-> Due, rows |-> rows,
                  left |-> {u \in Users : rows[u] # NoKey}]
    BY <1>1 DEF ExpireLoad
  <2>4. sweep' \in Sweep
    <3> HIDE DEF rows
    <3> QED BY <2>1, <2>2, <2>3 DEF Sweep
  <2> QED BY <1>1, <2>4, TablesUnchanged, UuidsUnchanged, WorkersUnchanged
          DEF ExpireLoad, TypeInv, JobsOK
<1>2. ASSUME NEW u \in Users, ExpireRevoke(u) PROVE TypeInv'
  <2>1. xray' \in [Users -> Keys \union {NoKey}]
    BY <1>2, AgentType DEF ExpireRevoke, TypeInv, UuidsOK
  <2>2. sweep' \in Sweep
    BY <1>2 DEF ExpireRevoke, TypeInv, JobsOK, Sweep
  <2> QED BY <1>2, <2>1, <2>2, TablesUnchanged, WorkersUnchanged
          DEF ExpireRevoke, TypeInv, JobsOK, UuidsOK
<1>3. NoSweep \in Sweep
  BY DEF NoSweep, Sweep, NoRows, Rows
<1>4. CASE ExpireCommit
  <2>1. sweep' \in Sweep
    BY <1>3, <1>4 DEF ExpireCommit
  <2>2. TablesOK'
    <3>1. CASE UNCHANGED <<subs, device>>
      BY <3>1, TablesUnchanged DEF TypeInv
    <3>2. CASE /\ \A u \in Users : sweep.rows[u] # NoKey
                                     => device[u].uuid = sweep.rows[u]
               /\ subs' = WithExpired(sweep.due)
               /\ device' = [u \in Users |->
                               IF sweep.rows[u] # NoKey
                                 THEN [device[u] EXCEPT !.status = "expired"]
                                 ELSE device[u]]
      <4>1. subs' \in Seq(Subscription)
        BY <3>2, WithExpiredFacts DEF TypeInv, TablesOK
      <4>2. \A u \in Users :
              /\ [device[u] EXCEPT !.status = "expired"] \in Device
              /\ sweep.rows[u] # NoKey
                   => DeviceShape([device[u] EXCEPT !.status = "expired"])
        BY <3>2 DEF TypeInv, TablesOK, JobsOK, Device, DeviceShape, NoDevice,
                    Sweep, Rows
      <4> QED BY <3>2, <4>1, <4>2 DEF TypeInv, TablesOK
    <3> QED BY <1>4, <3>1, <3>2 DEF ExpireCommit
  <2> QED BY <1>4, <2>1, <2>2, UuidsUnchanged, WorkersUnchanged
          DEF ExpireCommit, TypeInv, JobsOK
<1>5. CASE ExpireCrash
  BY <1>3, <1>5, TablesUnchanged, UuidsUnchanged, WorkersUnchanged
  DEF ExpireCrash, TypeInv, JobsOK
<1> QED BY <1>1, <1>2, <1>4, <1>5 DEF ExpiryJob

\* Type correctness of the steps of poll_once.
LEMMA TypeMonitor ==
  ASSUME TypeInv, Monitor \/ PollCrash
  PROVE  TypeInv'
<1>1. CASE PollLoad
  <2> DEFINE active == {u \in Users : device[u].status = "active"}
             rows   == [u \in Users |->
                          IF u \in active THEN device[u].uuid ELSE NoKey]
  <2>1. rows \in Rows /\ \A u \in active : rows[u] \in Keys
    BY DEF TypeInv, TablesOK, Device, DeviceShape, NoDevice, Rows
  <2>2. PICK bad \in SUBSET active :
          poll' = [busy |-> TRUE, bad |-> bad, left |-> bad, rows |-> rows]
    BY <1>1 DEF PollLoad
  <2>3. active \subseteq Users
    OBVIOUS
  <2>4. poll' \in Poll /\ \A u \in poll'.bad : poll'.rows[u] \in Keys
    <3> HIDE DEF rows, active
    <3> QED BY <2>1, <2>2, <2>3 DEF Poll
  <2> QED BY <1>1, <2>4, TablesUnchanged, UuidsUnchanged, WorkersUnchanged
          DEF PollLoad, TypeInv, JobsOK
<1>2. ASSUME NEW u \in Users, SuspendDevice(u) PROVE TypeInv'
  <2>1. xray' \in [Users -> Keys \union {NoKey}]
    BY <1>2, AgentType DEF SuspendDevice
  <2>2. /\ poll' \in Poll
        /\ poll'.bad = poll.bad
        /\ poll'.rows = poll.rows
    BY <1>2 DEF SuspendDevice, TypeInv, JobsOK, Poll
  <2> QED BY <1>2, <2>1, <2>2, TablesUnchanged, WorkersUnchanged
          DEF SuspendDevice, TypeInv, JobsOK, UuidsOK
<1>3. NoPoll \in Poll /\ NoPoll.bad = {}
  BY DEF NoPoll, Poll, NoRows, Rows
<1>4. CASE PollCommit
  <2>1. TablesOK'
    <3>1. CASE UNCHANGED device
      BY <1>4, <3>1, TablesUnchanged DEF PollCommit, TypeInv
    <3>2. CASE /\ \A u \in poll.bad : poll.rows[u] # NoKey
                                        => device[u].uuid = poll.rows[u]
               /\ device' = [u \in Users |->
                               IF u \in poll.bad
                                 THEN [device[u] EXCEPT !.status = "suspended"]
                                 ELSE device[u]]
      <4>1. \A u \in Users :
              /\ [device[u] EXCEPT !.status = "suspended"] \in Device
              /\ u \in poll.bad
                   => DeviceShape([device[u] EXCEPT !.status = "suspended"])
        BY <3>2, KeysAssumption
        DEF TypeInv, TablesOK, JobsOK, Device, DeviceShape, NoDevice
      <4> QED BY <1>4, <3>2, <4>1 DEF TypeInv, TablesOK, PollCommit
    <3>3. poll.bad \subseteq Users
      BY DEF TypeInv, JobsOK, Poll
    <3> QED BY <1>4, <3>1, <3>2, <3>3 DEF PollCommit
  <2> QED BY <1>3, <1>4, <2>1, UuidsUnchanged, WorkersUnchanged
          DEF PollCommit, TypeInv, JobsOK
<1>5. CASE PollCrash
  BY <1>3, <1>5, TablesUnchanged, UuidsUnchanged, WorkersUnchanged
  DEF PollCrash, TypeInv, JobsOK
<1> QED BY <1>1, <1>2, <1>4, <1>5 DEF Monitor

\* Every step of the system keeps the type invariant.
LEMMA TypeInvStep == TypeInv /\ [Next]_vars => TypeInv'
<1> SUFFICES ASSUME TypeInv, [Next]_vars PROVE TypeInv'
  OBVIOUS
<1>1. CASE \E u \in Users, p \in Products : Activate(u, p)
  BY <1>1, TypeActivate
<1>2. CASE \E s \in DOMAIN subs : Lapse(s)
  BY <1>2, TypeLapse
<1>3. CASE \/ \E w \in Workers, u \in Users : EnsureVpnKey(w, u)
           \/ \E u \in Users : RegenerateVpnKey(u)
           \/ NoSubscription
  BY <1>3, TypeLoads
<1>4. CASE \E w \in Workers : Proceed(w) \/ Crash(w)
  BY <1>4, TypeProceed
<1>5. CASE ExpiryJob \/ ExpireCrash
  BY <1>5, TypeExpiryJob
<1>6. CASE Monitor \/ PollCrash
  BY <1>6, TypeMonitor
<1>7. CASE UNCHANGED vars
  BY <1>7, TablesUnchanged, UuidsUnchanged, WorkersUnchanged, JobsUnchanged
  DEF vars, TypeInv
<1> QED BY <1>1, <1>2, <1>3, <1>4, <1>5, <1>6, <1>7 DEF Next

\* The tables, the agent and every operation in progress stay well-formed:
\* rows carry only generated uuids and known statuses, and every operation has
\* the data its next step needs, whatever interleaves, fails or crashes.
THEOREM TypeCorrect == Spec => []TypeInv
<1> QED BY TypeInvInit, TypeInvStep, PTL DEF Spec

\* The tables, the clients in Xray, and what the workers, the expiry job and
\* the monitor remember between two steps stay well-formed in every behaviour.
THEOREM TypeOKCorrect == Spec => []TypeOK
<1> QED BY TypeCorrect, TypeInvImpliesTypeOK, PTL

-----------------------------------------------------------------------------
(* Purchases: one active subscription per line.                            *)

\* The code's table of conflicting products is exactly "covers a line of p".
LEMMA ConflictingIsOverlap ==
  ASSUME NEW p \in Products, NEW q \in Products
  PROVE  q \in Conflicting(p) <=> Line(q) \cap Line(p) # {}
BY ProductAssumption DEF Conflicting, Line

\* Apart from an activation, no step adds a row, changes whose it is or what
\* it covers, or makes a closed one active again.
RowsOnlyClose ==
  /\ DOMAIN subs' = DOMAIN subs
  /\ \A s \in DOMAIN subs :
       /\ subs'[s].user = subs[s].user
       /\ subs'[s].product = subs[s].product
       /\ subs'[s].status \in {subs[s].status, "expired"}

\* Every step is an activation or at most closes rows.
LEMMA SubsStep ==
  ASSUME TypeInv, [Next]_vars
  PROVE  \/ \E u \in Users, p \in Products : Activate(u, p)
         \/ RowsOnlyClose
<1>1. subs \in Seq(Subscription)
  BY DEF TypeInv, TablesOK
<1>2. ASSUME UNCHANGED subs PROVE RowsOnlyClose
  BY <1>2 DEF RowsOnlyClose
<1>3. CASE \E s \in DOMAIN subs : Lapse(s)
  BY <1>1, <1>3, LapseSubs DEF RowsOnlyClose
<1>4. CASE ExpireCommit
  <2>1. CASE subs' = WithExpired(sweep.due)
    <3>1. DOMAIN subs' = DOMAIN subs
      BY <2>1 DEF WithExpired
    <3> QED BY <1>1, <2>1, <3>1, WithExpiredFacts DEF RowsOnlyClose
  <2> QED BY <1>2, <1>4, <2>1 DEF ExpireCommit
<1>5. CASE \/ NoSubscription
           \/ \E u \in Users : RegenerateVpnKey(u)
           \/ \E w \in Workers, u \in Users : EnsureVpnKey(w, u)
           \/ \E w \in Workers : Proceed(w) \/ Crash(w)
           \/ ExpireLoad \/ (\E u \in Users : ExpireRevoke(u)) \/ ExpireCrash
           \/ Monitor \/ PollCrash
           \/ UNCHANGED vars
  BY <1>2, <1>5 DEF NoSubscription, RegenerateVpnKey, EnsureVpnKey, Proceed,
    Crash, SyncDeviceToXray, RestoreVpnDevice, RestoreCommit, CreateVpnDevice,
    CreateCommit, UndoProvision, RevokeOldKey, DeleteOldRow, ExpireLoad,
    ExpireRevoke, ExpireCrash, Monitor, PollLoad, SuspendDevice, PollCommit,
    PollCrash, vars
<1> QED BY <1>3, <1>4, <1>5 DEF Next, ExpiryJob

\* A purchase closes what it overlaps with, and nothing else opens a row.
LEMMA OneActiveStep ==
  ASSUME TypeInv, OneActivePerLine, [Next]_vars
  PROVE  OneActivePerLine'
<1>1. ASSUME NEW u \in Users, NEW p \in Products, Activate(u, p)
      PROVE  OneActivePerLine'
  <2> DEFINE n == Len(subs) + 1
  <2>1. /\ subs'[n] = NewSubscription(u, p)
        /\ \A s \in DOMAIN subs :
              /\ subs'[s].user = subs[s].user
              /\ subs'[s].product = subs[s].product
              /\ subs'[s].status =
                   IF s \in Replaced(u, p) THEN "expired" ELSE subs[s].status
        /\ DOMAIN subs' = DOMAIN subs \union {n}
    BY <1>1, ActivateSubs DEF TypeInv, TablesOK
  <2>2. \A s \in DOMAIN subs : subs[s].product \in Products
    BY DomainIsNat DEF Subscription
  <2>3. /\ subs'[n].user = u
        /\ subs'[n].product = p
    BY <2>1 DEF NewSubscription
  <2>4. ASSUME NEW s \in DOMAIN subs,
               subs'[s].user = u, subs'[s].status = "active"
        PROVE  Line(subs'[s].product) \cap Line(p) = {}
    <3>1. subs[s].product \notin Conflicting(p)
      BY <2>1, <2>4 DEF Replaced
    <3> QED BY <2>1, <2>2, <3>1, ConflictingIsOverlap
  <2> HIDE DEF n
  <2> SUFFICES ASSUME NEW s \in DOMAIN subs', NEW t \in DOMAIN subs', s # t,
                      subs'[s].user = subs'[t].user,
                      subs'[s].status = "active", subs'[t].status = "active"
               PROVE  Line(subs'[s].product) \cap Line(subs'[t].product) = {}
    BY DEF OneActivePerLine
  <2>5. CASE s = n
    BY <2>1, <2>3, <2>4, <2>5
  <2>6. CASE t = n
    BY <2>1, <2>3, <2>4, <2>6
  <2>7. CASE s # n /\ t # n
    <3>1. /\ s \in DOMAIN subs /\ t \in DOMAIN subs
          /\ subs[s].status = "active" /\ subs[t].status = "active"
      BY <2>1, <2>7
    <3> QED BY <2>1, <3>1 DEF OneActivePerLine
  <2> QED BY <2>5, <2>6, <2>7
<1>2. ASSUME RowsOnlyClose PROVE OneActivePerLine'
  BY <1>2 DEF RowsOnlyClose, OneActivePerLine
<1> QED BY <1>1, <1>2, SubsStep

\* However purchases, closings and stale snapshots interleave, no user ever
\* has two active subscriptions that cover the same line.
THEOREM OneActivePerLineCorrect == Spec => []OneActivePerLine
<1>1. Init => OneActivePerLine
  BY DEF Init, OneActivePerLine
<1>2. TypeInv /\ OneActivePerLine /\ [Next]_vars => OneActivePerLine'
  BY OneActiveStep
<1> QED BY <1>1, <1>2, TypeCorrect, PTL DEF Spec

-----------------------------------------------------------------------------
(* What one step can do to the device row of a user.                       *)

\* A renewal moves it, a job closes it, a worker restores it, or a worker
\* inserts it where there was none (or where it had deleted it).
Moved(u) ==
  /\ \E p \in Products : p \in VpnLine /\ Activate(u, p)
  /\ device[u] # NoDevice
  /\ device'[u].uuid = device[u].uuid
  /\ device'[u].sub = Len(subs) + 1

Closed(u) ==
  /\ device[u] # NoDevice
  /\ device'[u].uuid = device[u].uuid
  /\ device'[u].sub = device[u].sub

RestoredBy(w, u) ==
  /\ op[w].step = "restored"
  /\ op[w].user = u
  /\ device[u] # NoDevice
  /\ device'[u].uuid = device[u].uuid
  /\ device'[u].sub \in {device[u].sub, op[w].sub}

InsertedBy(w, u) ==
  /\ CreateCommit(w)
  /\ MayInsert(w, u)
  /\ op[w].user = u
  /\ device'[u] = [uuid |-> op[w].uuid, sub |-> op[w].sub, status |-> "active"]

\* What one step can do to the device row of a user.
LEMMA DeviceStep ==
  ASSUME TypeInv, [Next]_vars, NEW u \in Users
  PROVE  \/ device'[u] = device[u]
         \/ Moved(u) \/ Closed(u)
         \/ \E w \in Workers : RestoredBy(w, u) \/ InsertedBy(w, u)
<1>1. CASE \E v \in Users, p \in Products : Activate(v, p)
  <2>1. PICK v \in Users, p \in Products : Activate(v, p)
    BY <1>1
  <2>2. CASE TakesOverDevice(v, p) /\ v = u
    <3>1. device[u] # NoDevice
      <4>1. device[u].sub \in DOMAIN subs
        BY <2>2 DEF TakesOverDevice, Replaced
      <4> QED BY <4>1, DomainIsNat DEF NoDevice
    <3>2. device' = [device EXCEPT ![u].sub = Len(subs) + 1]
      BY <2>1, <2>2 DEF Activate
    <3>3. /\ device'[u].uuid = device[u].uuid
          /\ device'[u].sub = Len(subs) + 1
      BY <3>2 DEF TypeInv, TablesOK, Device
    <3> QED BY <2>1, <2>2, <3>1, <3>3 DEF Moved, TakesOverDevice
  <2>3. CASE ~(TakesOverDevice(v, p) /\ v = u)
    BY <2>1, <2>3 DEF Activate, TypeInv, TablesOK
  <2> QED BY <2>2, <2>3
<1>2. CASE \E w \in Workers : RestoreCommit(w)
  <2>1. PICK w \in Workers : RestoreCommit(w)
    BY <1>2
  <2>2. op[w].user \in Users /\ op[w].row \in Keys
    BY <2>1, OpFields DEF RestoreCommit, OpShape
  <2>3. CASE /\ op[w].user = u
             /\ device[u].uuid = op[w].row
             /\ device' = [device EXCEPT ![u] = Restored(@, op[w])]
    <3>1. device'[u] = Restored(device[u], op[w])
      BY <2>3 DEF TypeInv, TablesOK
    <3>2. device[u] # NoDevice
      BY <2>2, <2>3, KeysAssumption DEF NoDevice
    <3>3. /\ device'[u].uuid = device[u].uuid
          /\ device'[u].sub \in {device[u].sub, op[w].sub}
      BY <3>1 DEF Restored, TypeInv, TablesOK, Device
    <3> QED BY <2>1, <2>3, <3>2, <3>3 DEF RestoreCommit, RestoredBy
  <2>4. CASE op[w].user # u
    BY <2>1, <2>4 DEF RestoreCommit, TypeInv, TablesOK
  <2>5. CASE UNCHANGED device
    BY <2>5
  <2> QED BY <2>1, <2>3, <2>4, <2>5 DEF RestoreCommit
<1>3. CASE \E w \in Workers : CreateCommit(w)
  <2>1. PICK w \in Workers : CreateCommit(w)
    BY <1>3
  <2>2. CASE UNCHANGED device \/ op[w].user # u
    BY <2>1, <2>2 DEF CreateCommit, TypeInv, TablesOK
  <2>3. CASE op[w].user = u /\ ~UNCHANGED device
    <3>1. /\ MayInsert(w, u)
          /\ device' = [device EXCEPT ![u] = [uuid |-> op[w].uuid,
                                              sub |-> op[w].sub,
                                              status |-> "active"]]
      BY <2>1, <2>3 DEF CreateCommit
    <3> QED BY <2>1, <2>3, <3>1 DEF InsertedBy, TypeInv, TablesOK
  <2> QED BY <2>2, <2>3
<1>4. CASE ExpireCommit
  <2>1. CASE UNCHANGED device
    BY <2>1
  <2>2. CASE /\ sweep.rows[u] # NoKey => device[u].uuid = sweep.rows[u]
             /\ device'[u] = IF sweep.rows[u] # NoKey
                               THEN [device[u] EXCEPT !.status = "expired"]
                               ELSE device[u]
    BY <2>2 DEF Closed, NoDevice, TypeInv, TablesOK, Device
  <2> QED BY <1>4, <2>1, <2>2 DEF ExpireCommit
<1>5. CASE PollCommit
  <2>1. CASE UNCHANGED device
    BY <2>1
  <2>2. CASE /\ u \in poll.bad /\ poll.rows[u] # NoKey
                  => device[u].uuid = poll.rows[u]
             /\ device'[u] = IF u \in poll.bad
                               THEN [device[u] EXCEPT !.status = "suspended"]
                               ELSE device[u]
    <3>1. u \in poll.bad => poll.rows[u] # NoKey
      BY KeysAssumption DEF TypeInv, JobsOK
    <3> QED BY <2>2, <3>1 DEF Closed, NoDevice, TypeInv, TablesOK, Device
  <2> QED BY <1>5, <2>1, <2>2 DEF PollCommit
<1>6. CASE \/ \E s \in DOMAIN subs : Lapse(s)
           \/ NoSubscription
           \/ \E v \in Users : RegenerateVpnKey(v)
           \/ \E w \in Workers, v \in Users : EnsureVpnKey(w, v)
           \/ \E w \in Workers :
                \/ SyncDeviceToXray(w) \/ RestoreVpnDevice(w)
                \/ CreateVpnDevice(w) \/ UndoProvision(w)
                \/ RevokeOldKey(w) \/ DeleteOldRow(w) \/ Crash(w)
           \/ ExpireLoad \/ (\E v \in Users : ExpireRevoke(v)) \/ ExpireCrash
           \/ PollLoad \/ (\E v \in Users : SuspendDevice(v)) \/ PollCrash
           \/ UNCHANGED vars
  BY <1>6 DEF Lapse, NoSubscription, RegenerateVpnKey, EnsureVpnKey,
    Crash, SyncDeviceToXray, RestoreVpnDevice, CreateVpnDevice,
    UndoProvision, RevokeOldKey, DeleteOldRow, ExpireLoad,
    ExpireRevoke, ExpireCrash, PollLoad, SuspendDevice, PollCrash, vars
<1> QED BY <1>1, <1>2, <1>3, <1>4, <1>5, <1>6
        DEF Next, Proceed, ExpiryJob, Monitor

-----------------------------------------------------------------------------
(* What one step can do to the record of a worker.                         *)

Working == {"sync", "restore", "restored", "create", "created", "revoke",
            "delete", "undo"}

Paid(w) ==
  /\ w = Web
  /\ op'[w].step = "start"
  /\ op'[w].row = NoKey
  /\ op'[w].uuid = NoKey
  /\ op'[w].held = FALSE

\* ensure_vpn_key or regenerate_vpn_key_for_user loads its rows.
Loads(w) ==
  \E u \in Users, x \in {"sync", "restore", "create", "revoke"} :
  \E s \in Current(u) :
    /\ x = "revoke" => w = Web /\ u \in WebUsers
    /\ w # Web => u \in BotUsers
    /\ UNCHANGED <<subs, device, xray, used, retired>>
    /\ op' = [op EXCEPT ![w] = [Idle EXCEPT !.step = x, !.user = u, !.sub = s,
                                            !.row = device[u].uuid,
                                            !.from = device[u].sub]]

\* An operation under way goes on with the same user, subscription and row.
Advances(w) ==
  /\ op[w].step \in Working
  /\ op'[w].step \in Working
  /\ op'[w].user = op[w].user
  /\ op'[w].sub = op[w].sub
  /\ op'[w].row = op[w].row
  /\ op'[w].uuid \in {op[w].uuid, op[w].row} \/ CreateVpnDevice(w)
  /\ op'[w].step \in {"revoke", "delete"} => RevokeOldKey(w)
  /\ op'[w].step = "created" => CreateVpnDevice(w)
  /\ op'[w].step \notin {"sync", "restore"}
  /\ op'[w].held => op[w].held \/ (op[w].step = "delete" /\ DeleteOldRow(w))

\* An operation that begins has loaded its row from the tables as they are.
LEMMA LoadsStep ==
  ASSUME TypeInv,
         NEW w \in Workers, NEW u \in Users,
         EnsureVpnKey(w, u) \/ (w = Web /\ RegenerateVpnKey(u))
  PROVE  Loads(w)
<1>1. CASE EnsureVpnKey(w, u)
  <2>1. PICK s \in Current(u) :
          Becomes(w, [Idle EXCEPT !.step = EnsureStep(u, s), !.user = u, !.sub = s,
                                  !.row = device[u].uuid,
                                  !.from = device[u].sub])
    BY <1>1 DEF EnsureVpnKey
  <2>2. EnsureStep(u, s) \in {"sync", "restore", "create"}
    BY DEF EnsureStep, FoundConsolidated
  <2>3. w # Web => u \in BotUsers
    BY <1>1 DEF EnsureVpnKey
  <2> QED BY <1>1, <2>1, <2>2, <2>3 DEF Loads, Becomes, EnsureVpnKey
<1>2. CASE w = Web /\ RegenerateVpnKey(u)
  <2>1. PICK s \in Current(u), x \in {"revoke", "create"} :
          Becomes(Web, [Idle EXCEPT !.step = x, !.user = u, !.sub = s,
                                    !.row = device[u].uuid,
                                    !.from = device[u].sub])
    BY <1>2 DEF RegenerateVpnKey
  <2> QED BY <1>2, <2>1 DEF Loads, Becomes, RegenerateVpnKey, HasCabinet
<1> QED BY <1>1, <1>2

\* A worker that goes on keeps its user, row and subscription.
LEMMA AdvanceStep ==
  ASSUME TypeInv, NEW w \in Workers, Proceed(w)
  PROVE  op'[w] = Idle \/ Advances(w)
<1>1. op[w] \in Op /\ op \in [Workers -> Op]
  BY DEF TypeInv, WorkersOK
<1>2. CASE SyncDeviceToXray(w) \/ UndoProvision(w)
  BY <1>1, <1>2 DEF SyncDeviceToXray, UndoProvision, Becomes
<1>3. CASE RestoreVpnDevice(w)
  <2>1. /\ op[w].step = "restore"
        /\ op'[w] = Idle \/ op'[w] = [op[w] EXCEPT !.step = "restored"]
    BY <1>1, <1>3 DEF RestoreVpnDevice, Becomes
  <2> QED BY <1>1, <2>1 DEF Advances, Working, Op
<1>4. CASE RestoreCommit(w)
  <2>1. /\ op[w].step = "restored"
        /\ \/ op'[w] = Idle
           \/ op'[w] = [op[w] EXCEPT !.step = "undo", !.uuid = op[w].row]
    BY <1>1, <1>4 DEF RestoreCommit, Becomes
  <2> QED BY <1>1, <2>1 DEF Advances, Working, Op
<1>5. CASE CreateVpnDevice(w)
  <2>1. PICK k \in Keys :
          op'[w] = Idle \/ op'[w] = [op[w] EXCEPT !.step = "created", !.uuid = k]
    BY <1>1, <1>5 DEF CreateVpnDevice, Becomes
  <2>2. op[w].step = "create"
    BY <1>5 DEF CreateVpnDevice
  <2> QED BY <1>1, <1>5, <2>1, <2>2 DEF Advances, Working, Op
<1>6. CASE CreateCommit(w)
  <2>1. /\ op[w].step = "created"
        /\ op'[w] = Idle \/ op'[w] = [op[w] EXCEPT !.step = "undo", !.held = FALSE]
    BY <1>1, <1>6 DEF CreateCommit, Becomes
  <2> QED BY <1>1, <2>1 DEF Advances, Working, Op
<1>7. CASE RevokeOldKey(w)
  <2>1. /\ op[w].step = "revoke"
        /\ op'[w] = Idle \/ op'[w] = [op[w] EXCEPT !.step = "delete"]
    BY <1>1, <1>7 DEF RevokeOldKey, Becomes
  <2> QED BY <1>1, <1>7, <2>1 DEF Advances, Working, Op
<1>8. CASE DeleteOldRow(w)
  BY <1>1, <1>8 DEF DeleteOldRow, Becomes, Advances, Working, Op
<1> QED BY <1>2, <1>3, <1>4, <1>5, <1>6, <1>7, <1>8 DEF Proceed

\* What one step can do to the record of a worker.
LEMMA WorkerStep ==
  ASSUME TypeInv, [Next]_vars, NEW w \in Workers
  PROVE  op'[w] = op[w] \/ op'[w] = Idle \/ Paid(w) \/ Loads(w) \/ Advances(w)
<1>1. ASSUME NEW v \in Workers, v # w, Proceed(v) \/ Crash(v)
      PROVE  op'[w] = op[w]
  BY <1>1 DEF Proceed, Crash, SyncDeviceToXray, RestoreVpnDevice, RestoreCommit,
    CreateVpnDevice, CreateCommit, UndoProvision, RevokeOldKey, DeleteOldRow,
    Becomes, TypeInv, WorkersOK
<1>2. CASE Proceed(w) \/ Crash(w)
  BY <1>2, AdvanceStep DEF Crash, Becomes, TypeInv, WorkersOK
<1>3. ASSUME NEW v \in Workers, NEW u \in Users, EnsureVpnKey(v, u)
      PROVE  op'[w] = op[w] \/ Loads(w)
  <2>1. CASE v = w
    BY <1>3, <2>1, LoadsStep
  <2>2. CASE v # w
    BY <1>3, <2>2 DEF EnsureVpnKey, Becomes, TypeInv, WorkersOK
  <2> QED BY <2>1, <2>2
<1>4. ASSUME NEW u \in Users, RegenerateVpnKey(u)
      PROVE  op'[w] = op[w] \/ Loads(w)
  <2>1. CASE w = Web
    BY <1>4, <2>1, LoadsStep
  <2>2. CASE w # Web
    BY <1>4, <2>2 DEF RegenerateVpnKey, Becomes, TypeInv, WorkersOK
  <2> QED BY <2>1, <2>2
<1>5. CASE \E u \in Users, p \in Products : Activate(u, p)
  <2>1. \/ UNCHANGED op
        \/ \E u \in Users :
             op' = [op EXCEPT ![Web] = [Idle EXCEPT !.step = "start", !.user = u]]
    BY <1>5 DEF Activate, Becomes
  <2> QED BY <2>1 DEF Paid, Idle, TypeInv, WorkersOK
<1>6. CASE NoSubscription
  BY <1>6 DEF NoSubscription, Becomes, TypeInv, WorkersOK
<1>7. CASE \/ \E s \in DOMAIN subs : Lapse(s)
           \/ ExpiryJob \/ ExpireCrash \/ Monitor \/ PollCrash
           \/ UNCHANGED vars
  BY <1>7 DEF Lapse, ExpiryJob, ExpireLoad, ExpireRevoke, ExpireCommit, ExpireCrash,
    Monitor, PollLoad, SuspendDevice, PollCommit, PollCrash, vars
<1> QED BY <1>1, <1>2, <1>3, <1>4, <1>5, <1>6, <1>7 DEF Next

-----------------------------------------------------------------------------
(* A device hangs off a subscription of its user that includes VPN.        *)

OnVpnLine(t, u, s) ==
  /\ s \in DOMAIN t
  /\ t[s].user = u
  /\ t[s].product \in VpnLine

\* The property needs that the subscription an operation has loaded, and will
\* store at its end, is such a subscription.
VpnLineInv ==
  /\ \A u \in Users : device[u] # NoDevice => OnVpnLine(subs, u, device[u].sub)
  /\ \A w \in Workers : op[w].step \in Working => OnVpnLine(subs, op[w].user, op[w].sub)

\* A VPN subscription of a user remains one: rows are closed, never rewritten.
LEMMA OnVpnLineStable ==
  ASSUME TypeInv, [Next]_vars, NEW u, NEW s, OnVpnLine(subs, u, s)
  PROVE  OnVpnLine(subs', u, s)
<1>1. subs \in Seq(Subscription)
  BY DEF TypeInv, TablesOK
<1>2. CASE \E v \in Users, p \in Products : Activate(v, p)
  BY <1>1, <1>2, ActivateSubs DEF OnVpnLine
<1>3. CASE RowsOnlyClose
  BY <1>3 DEF RowsOnlyClose, OnVpnLine
<1> QED BY <1>2, <1>3, SubsStep

\* Activation moves a row, and creation and restoration attach one, only to VPN
\* subscriptions of its user.
LEMMA VpnLineStep ==
  ASSUME TypeInv, VpnLineInv, [Next]_vars
  PROVE  VpnLineInv'
<1>1. ASSUME NEW u \in Users, device'[u] # NoDevice
      PROVE  OnVpnLine(subs', u, device'[u].sub)
  <2>1. CASE device'[u] = device[u] \/ Closed(u)
    BY <1>1, <2>1, OnVpnLineStable DEF Closed, VpnLineInv
  <2>2. CASE Moved(u)
    <3>1. PICK p \in Products : p \in VpnLine /\ Activate(u, p)
      BY <2>2 DEF Moved
    <3>2. /\ subs'[Len(subs) + 1] = NewSubscription(u, p)
          /\ Len(subs) + 1 \in DOMAIN subs'
      BY <3>1, ActivateSubs DEF TypeInv, TablesOK
    <3> QED BY <2>2, <3>1, <3>2 DEF Moved, OnVpnLine, NewSubscription
  <2>3. ASSUME NEW w \in Workers, RestoredBy(w, u)
        PROVE  OnVpnLine(subs', u, device'[u].sub)
    <3>1. OnVpnLine(subs, u, device[u].sub) /\ OnVpnLine(subs, u, op[w].sub)
      BY <2>3 DEF RestoredBy, VpnLineInv, Working
    <3>2. device'[u].sub \in {device[u].sub, op[w].sub}
      BY <2>3 DEF RestoredBy
    <3> QED BY <3>1, <3>2, OnVpnLineStable
  <2>4. ASSUME NEW w \in Workers, InsertedBy(w, u)
        PROVE  OnVpnLine(subs', u, device'[u].sub)
    <3>1. op[w].step = "created" /\ op[w].user = u /\ device'[u].sub = op[w].sub
      BY <2>4 DEF InsertedBy, CreateCommit
    <3>2. OnVpnLine(subs, u, op[w].sub)
      BY <3>1 DEF VpnLineInv, Working
    <3> QED BY <3>1, <3>2, OnVpnLineStable
  <2> QED BY <2>1, <2>2, <2>3, <2>4, DeviceStep
<1>2. ASSUME NEW w \in Workers, op'[w].step \in Working
      PROVE  OnVpnLine(subs', op'[w].user, op'[w].sub)
  <2>1. CASE op'[w] = op[w] \/ Advances(w)
    <3>1. OnVpnLine(subs, op[w].user, op[w].sub)
      BY <1>2, <2>1 DEF VpnLineInv, Advances
    <3>2. op'[w].user = op[w].user /\ op'[w].sub = op[w].sub
      BY <2>1 DEF Advances
    <3> QED BY <3>1, <3>2, OnVpnLineStable
  <2>2. CASE Loads(w)
    <3>1. PICK u \in Users :
            \E s \in Current(u) : op'[w].user = u /\ op'[w].sub = s
      BY <2>2 DEF Loads, TypeInv, WorkersOK, Idle
    <3>2. OnVpnLine(subs, u, op'[w].sub)
      BY <3>1 DEF Current, OnVpnLine
    <3> QED BY <3>1, <3>2, OnVpnLineStable
  <2>3. CASE op'[w] = Idle \/ Paid(w)
    BY <1>2, <2>3 DEF Paid, Idle, Working
  <2> QED BY <2>1, <2>2, <2>3, WorkerStep
<1> QED BY <1>1, <1>2 DEF VpnLineInv

\* Renewal, restoration and creation never attach a key to a subscription of
\* another user or to one without VPN, even when the rows they act on were
\* loaded before other transactions committed.
THEOREM DeviceOnVpnLineCorrect == Spec => []DeviceOnVpnLine
<1>1. Init => VpnLineInv
  BY DEF Init, VpnLineInv, Idle, Working
<1>2. TypeInv /\ VpnLineInv /\ [Next]_vars => VpnLineInv'
  BY VpnLineStep
<1>3. VpnLineInv => DeviceOnVpnLine
  BY DEF VpnLineInv, DeviceOnVpnLine, OnVpnLine
<1> QED BY <1>1, <1>2, <1>3, TypeCorrect, PTL DEF Spec

-----------------------------------------------------------------------------
(* The key of a user changes only when the cabinet asks for it.            *)

\* Bot threads serve the users of the bot; what deletes a row is a request
\* from the cabinet of the site, in the web process.
CabinetInv ==
  \A w \in Workers :
    /\ op[w].step \in {"revoke", "delete"} \/ op[w].held
         => w = Web /\ op[w].user \in WebUsers
    /\ w # Web => op[w].user \in BotUsers \union {Nobody}

\* No operation is in progress at the start.
LEMMA CabinetInit == Init => CabinetInv
BY DEF Init, CabinetInv, Idle

\* Only the web process regenerates, and only for users of the site.
LEMMA CabinetStep ==
  ASSUME TypeInv, CabinetInv, [Next]_vars
  PROVE  CabinetInv'
<1> SUFFICES ASSUME NEW w \in Workers
             PROVE  /\ op'[w].step \in {"revoke", "delete"} \/ op'[w].held
                         => w = Web /\ op'[w].user \in WebUsers
                    /\ w # Web => op'[w].user \in BotUsers \union {Nobody}
  BY DEF CabinetInv
<1>1. CASE op'[w] = op[w]
  BY <1>1 DEF CabinetInv
<1>2. CASE op'[w] = Idle
  BY <1>2 DEF Idle
<1>3. CASE Paid(w)
  BY <1>3 DEF Paid
<1>4. CASE Loads(w)
  <2>1. PICK u \in Users, x \in {"sync", "restore", "create", "revoke"} :
          /\ x = "revoke" => w = Web /\ u \in WebUsers
          /\ w # Web => u \in BotUsers
          /\ op'[w].step = x
          /\ op'[w].user = u
          /\ op'[w].held = FALSE
    BY <1>4 DEF Loads, TypeInv, WorkersOK, Idle
  <2> QED BY <2>1
<1>5. CASE Advances(w)
  BY <1>5 DEF Advances, CabinetInv, RevokeOldKey
<1> QED BY <1>1, <1>2, <1>3, <1>4, <1>5, WorkerStep

\* A row that is there keeps its uuid unless the web process inserts another in
\* the transaction in which it has deleted the row.
LEMMA KeyStep ==
  ASSUME TypeInv, CabinetInv, [Next]_vars, NEW u \in Users, device[u] # NoDevice
  PROVE  \/ device'[u].uuid = device[u].uuid
         \/ u \in WebUsers /\ op[Web].held /\ InsertedBy(Web, u)
<1>1. CASE device'[u] = device[u] \/ Moved(u) \/ Closed(u)
           \/ \E w \in Workers : RestoredBy(w, u)
  BY <1>1 DEF Moved, Closed, RestoredBy
<1>2. ASSUME NEW w \in Workers, InsertedBy(w, u) PROVE u \in WebUsers /\ w = Web /\ op[w].held
  BY <1>2 DEF InsertedBy, MayInsert, CabinetInv
<1> QED BY <1>1, <1>2, DeviceStep

\* The connection string of a user survives renewals, expiry, suspension,
\* restoration, failures and crashes; only a committed regeneration, by the
\* web process for that user, replaces it.
THEOREM SameKeyCorrect == Spec => SameKeyUnlessAsked
<1> DEFINE Same(u) == \/ device'[u].uuid = device[u].uuid
                      \/ u \in WebUsers /\ op[Web].user = u /\ op[Web].held
<1>1. ASSUME TypeInv, CabinetInv, [Next]_vars,
             NEW u \in Users, device[u] # NoDevice
      PROVE  Same(u)
  BY <1>1, KeyStep DEF InsertedBy
<1>2. TypeInv /\ CabinetInv /\ [Next]_vars
        => [\A u \in Users : device[u] # NoDevice => Same(u)]_vars
  BY <1>1
<1>3. TypeInv /\ CabinetInv /\ [Next]_vars => CabinetInv'
  BY CabinetStep
<1> QED BY <1>2, <1>3, CabinetInit, TypeCorrect, PTL
        DEF Spec, SameKeyUnlessAsked

-----------------------------------------------------------------------------
(* A replaced uuid never comes back.                                       *)

\* The tables d, x and the workers' records o hold uuid k for user u: in the
\* row, as the client of the agent, or in an operation that may still put it
\* into one of them.
KeyOf(d, x, o, u, k) ==
  \/ d[u].uuid = k
  \/ x[u] = k
  \/ \E w \in Workers : o[w].user = u /\ k \in {o[w].row, o[w].uuid}

\* A uuid belongs to one user, was generated, and is not held anywhere once it
\* is retired.  While a replacement is on its way, the client of the old uuid
\* is already gone and the new uuid is another one: so when the replacement
\* commits, nobody holds the old one any more.
RetiredInv ==
  /\ retired \subseteq used
  /\ \A u \in Users, k \in Keys :
       KeyOf(device, xray, op, u, k) => k \in used \ retired
  /\ \A u, v \in Users, k \in Keys :
       KeyOf(device, xray, op, u, k) /\ KeyOf(device, xray, op, v, k) => u = v
  /\ \A w \in Workers :
       /\ op[w].step = "delete" \/ op[w].held => xray[op[w].user] # op[w].row
       /\ op[w].step = "created" /\ op[w].held => op[w].uuid # op[w].row

\* No uuid is retired at the start.
LEMMA RetiredInit == Init => RetiredInv
BY KeysAssumption DEF Init, RetiredInv, KeyOf, NoDevice, Idle

\* What one step can do to the client of a user.
LEMMA XrayStep ==
  ASSUME TypeInv, [Next]_vars, NEW u \in Users
  PROVE  \/ xray'[u] \in {xray[u], NoKey}
         \/ \E w \in Workers : /\ op[w].step \in {"sync", "restore"}
                               /\ op[w].user = u
                               /\ xray'[u] = op[w].row
         \/ \E w \in Workers : CreateVpnDevice(w)
<1>1. ASSUME NEW k, NEW ok \in BOOLEAN, RemoveUser(k, ok)
      PROVE  xray'[u] \in {xray[u], NoKey}
  BY <1>1 DEF RemoveUser, Without
<1>2. ASSUME NEW v \in Users, NEW k, NEW ok \in BOOLEAN, AddUser(v, k, ok)
      PROVE  xray'[u] = xray[u] \/ (v = u /\ xray'[u] = k)
  BY <1>2 DEF AddUser, TypeInv, UuidsOK
<1>3. ASSUME NEW w \in Workers, SyncDeviceToXray(w) \/ RestoreVpnDevice(w)
      PROVE  xray'[u] = xray[u] \/ (/\ op[w].step \in {"sync", "restore"}
                                    /\ op[w].user = u
                                    /\ xray'[u] = op[w].row)
  <2>1. op[w].user \in Users
    BY <1>3, OpFields DEF SyncDeviceToXray, RestoreVpnDevice, OpShape
  <2> QED BY <1>2, <1>3, <2>1 DEF SyncDeviceToXray, RestoreVpnDevice
<1>4. CASE \/ \E w \in Workers : UndoProvision(w) \/ RevokeOldKey(w)
           \/ \E v \in Users : ExpireRevoke(v) \/ SuspendDevice(v)
  BY <1>1, <1>4 DEF UndoProvision, RevokeOldKey, ExpireRevoke, SuspendDevice
<1>5. CASE \/ \E v \in Users, p \in Products : Activate(v, p)
           \/ \E s \in DOMAIN subs : Lapse(s)
           \/ NoSubscription
           \/ \E v \in Users : RegenerateVpnKey(v)
           \/ \E w \in Workers, v \in Users : EnsureVpnKey(w, v)
           \/ \E w \in Workers : \/ RestoreCommit(w) \/ CreateCommit(w)
                                 \/ DeleteOldRow(w) \/ Crash(w)
           \/ ExpireLoad \/ ExpireCommit \/ ExpireCrash
           \/ PollLoad \/ PollCommit \/ PollCrash
           \/ UNCHANGED vars
  BY <1>5 DEF Activate, Lapse, NoSubscription, RegenerateVpnKey, EnsureVpnKey,
    RestoreCommit, CreateCommit, DeleteOldRow, Crash, ExpireLoad, ExpireCommit,
    ExpireCrash, PollLoad, PollCommit, PollCrash, vars
<1> QED BY <1>3, <1>4, <1>5 DEF Next, Proceed, ExpiryJob, Monitor

\* Only a creation draws a uuid and only the commit of one retires one.
LEMMA UsedStep ==
  ASSUME [Next]_vars, ~\E w \in Workers : CreateVpnDevice(w)
  PROVE  /\ used' = used
         /\ retired' = retired \/ \E w \in Workers : CreateCommit(w)
BY DEF Next, Proceed, ExpiryJob, Monitor, Activate, Lapse, NoSubscription,
  RegenerateVpnKey, EnsureVpnKey, SyncDeviceToXray, RestoreVpnDevice,
  RestoreCommit, CreateCommit, UndoProvision, RevokeOldKey,
  DeleteOldRow, Crash, ExpireLoad, ExpireRevoke, ExpireCommit, ExpireCrash,
  PollLoad, SuspendDevice, PollCommit, PollCrash, vars

\* Without a creation, every uuid a user holds after the step was the user's
\* before it: rows, clients and operations only pass uuids on.
LEMMA KeysFlow ==
  ASSUME TypeInv, [Next]_vars, ~\E w \in Workers : CreateVpnDevice(w),
         NEW u \in Users, NEW k \in Keys, KeyOf(device', xray', op', u, k)
  PROVE  KeyOf(device, xray, op, u, k)
<1>1. CASE device'[u].uuid = k
  <2>1. CASE device'[u] = device[u] \/ Moved(u) \/ Closed(u)
             \/ \E w \in Workers : RestoredBy(w, u)
    BY <1>1, <2>1 DEF Moved, Closed, RestoredBy, KeyOf
  <2>2. CASE \E w \in Workers : InsertedBy(w, u)
    BY <1>1, <2>2 DEF InsertedBy, KeyOf
  <2> QED BY <2>1, <2>2, DeviceStep
<1>2. CASE xray'[u] = k
  BY <1>2, XrayStep, KeysAssumption DEF KeyOf
<1>3. ASSUME NEW w \in Workers, op'[w].user = u, k \in {op'[w].row, op'[w].uuid}
      PROVE  KeyOf(device, xray, op, u, k)
  <2>1. CASE op'[w] = op[w]
    BY <1>3, <2>1 DEF KeyOf
  <2>2. CASE op'[w] = Idle \/ Paid(w)
    BY <1>3, <2>2, KeysAssumption DEF Idle, Paid
  <2>3. CASE Loads(w)
    <3>1. /\ op'[w].row = device[op'[w].user].uuid
          /\ op'[w].uuid = NoKey
      BY <2>3 DEF Loads, TypeInv, WorkersOK, Idle
    <3> QED BY <1>3, <3>1, KeysAssumption DEF KeyOf
  <2>4. CASE Advances(w)
    BY <1>3, <2>4 DEF Advances, KeyOf
  <2> QED BY <2>1, <2>2, <2>3, <2>4, WorkerStep
<1> QED BY <1>1, <1>2, <1>3 DEF KeyOf

\* A worker that is replacing a row is not disturbed by the others.
LEMMA ReplacementStep ==
  ASSUME TypeInv, CabinetInv, RetiredInv, [Next]_vars,
         ~\E w \in Workers : CreateVpnDevice(w),
         NEW w \in Workers
  PROVE  /\ op'[w].step = "delete" \/ op'[w].held
              => xray'[op'[w].user] # op'[w].row
         /\ op'[w].step = "created" /\ op'[w].held => op'[w].uuid # op'[w].row
<1>1. ASSUME op[w].step = "delete" \/ op[w].held
      PROVE  xray'[op[w].user] # op[w].row
  <2>1. /\ w = Web
        /\ op[w].user \in Users
        /\ op[w].user \notin BotUsers \union {Nobody}
    BY <1>1, UsersAssumption DEF CabinetInv, Users
  <2>2. /\ op[w].row \in Keys
        /\ op[w].step \notin {"sync", "restore"}
    BY <1>1, OpFields DEF OpShape
  <2>3. xray[op[w].user] # op[w].row
    BY <1>1 DEF RetiredInv
  <2>4. \A v \in Workers \ {w} : op[v].user # op[w].user
    BY <2>1 DEF CabinetInv
  <2>5. xray'[op[w].user] \in {xray[op[w].user], NoKey}
    BY <2>1, <2>2, <2>4, XrayStep
  <2> QED BY <2>2, <2>3, <2>5, KeysAssumption
<1>2. CASE op'[w] = op[w]
  BY <1>1, <1>2 DEF RetiredInv
<1>3. CASE op'[w] = Idle \/ Paid(w)
  BY <1>3 DEF Idle, Paid
<1>4. CASE Loads(w)
  <2>1. op'[w].step \in {"sync", "restore", "create", "revoke"} /\ ~op'[w].held
    BY <1>4 DEF Loads, TypeInv, WorkersOK, Idle
  <2> QED BY <2>1
<1>5. CASE Advances(w)
  <2>1. ASSUME RevokeOldKey(w), op'[w] # Idle
        PROVE  xray'[op[w].user] # op[w].row
    <3>1. xray' = Without(op[w].row)
      BY <2>1 DEF RevokeOldKey, RemoveUser, Becomes, TypeInv, WorkersOK
    <3>2. op[w].user \in Users /\ op[w].row \in Keys
      BY <2>1, OpFields DEF RevokeOldKey, OpShape
    <3> QED BY <3>1, <3>2, KeysAssumption DEF Without
  <2>2. op'[w] # Idle
    BY <1>5 DEF Advances, Working, Idle
  <2> QED BY <1>1, <1>5, <2>1, <2>2 DEF Advances
<1> QED BY <1>2, <1>3, <1>4, <1>5, WorkerStep

\* A created key is new, so it is none of the retired ones.
LEMMA RetiredCreate ==
  ASSUME TypeInv, CabinetInv, RetiredInv, NEW w \in Workers, CreateVpnDevice(w)
  PROVE  RetiredInv'
<1> DEFINE u == op[w].user
<1>1. PICK k \in Keys \ used, ok \in BOOLEAN :
        /\ AddUser(u, k, ok)
        /\ used' = used \union {k}
        /\ Becomes(w, IF ok THEN [op[w] EXCEPT !.step = "created", !.uuid = k]
                         ELSE Idle)
  BY DEF CreateVpnDevice
<1>2. UNCHANGED <<device, retired>> /\ u \in Users
  BY OpFields DEF CreateVpnDevice, OpShape
<1>3. \A v \in Users : xray'[v] = xray[v] \/ (v = u /\ xray'[v] = k)
  BY <1>1, <1>2 DEF AddUser, TypeInv, UuidsOK
<1>4. \A v \in Workers \ {w} : op'[v] = op[v]
  BY <1>1 DEF Becomes, TypeInv, WorkersOK
<1>5. \/ op'[w] = Idle
      \/ /\ op'[w].step = "created"
         /\ op'[w].user = u
         /\ op'[w].row = op[w].row
         /\ op'[w].uuid = k
         /\ op'[w].held = op[w].held
  BY <1>1 DEF Becomes, TypeInv, WorkersOK, Op
<1>6. ASSUME NEW v \in Users, NEW j \in Keys, KeyOf(device', xray', op', v, j)
      PROVE  KeyOf(device, xray, op, v, j) \/ (v = u /\ j = k)
  BY <1>2, <1>3, <1>4, <1>5, <1>6, KeysAssumption DEF KeyOf, Idle
<1>7. \A v \in Users, j \in Keys :
        KeyOf(device, xray, op, v, j) => j \in used \ retired
  BY DEF RetiredInv
<1>8. retired' \subseteq used'
  BY <1>1, <1>2 DEF RetiredInv
<1>9. \A v \in Users, j \in Keys :
        KeyOf(device', xray', op', v, j) => j \in used' \ retired'
  BY <1>1, <1>2, <1>6, <1>7 DEF RetiredInv
<1>10. \A v1, v2 \in Users, j \in Keys :
         KeyOf(device', xray', op', v1, j) /\ KeyOf(device', xray', op', v2, j)
           => v1 = v2
  BY <1>6, <1>7 DEF RetiredInv
<1>11. ASSUME NEW v \in Workers, op'[v].step = "delete" \/ op'[v].held
       PROVE  xray'[op'[v].user] # op'[v].row
  <2>1. CASE v = w
    <3>1. op[w].held /\ op'[w].row = op[w].row /\ op'[w].user = u
      BY <1>5, <1>11, <2>1 DEF Idle
    <3>2. op[w].row \in Keys /\ KeyOf(device, xray, op, u, op[w].row)
      BY <3>1, OpFields DEF OpShape, KeyOf
    <3>3. op[w].row # k
      BY <1>2, <1>7, <3>2
    <3> QED BY <1>2, <1>3, <2>1, <3>1, <3>3 DEF RetiredInv
  <2>2. CASE v # w
    <3>1. op'[v] = op[v] /\ v = Web /\ op[v].user \in WebUsers
      BY <1>4, <1>11, <2>2 DEF CabinetInv
    <3>2. op[v].user # u
      BY <1>2, <2>2, <3>1, UsersAssumption DEF CabinetInv
    <3> QED BY <1>3, <1>11, <3>1, <3>2 DEF RetiredInv, Users
  <2> QED BY <2>1, <2>2
<1>12. ASSUME NEW v \in Workers, op'[v].step = "created", op'[v].held
       PROVE  op'[v].uuid # op'[v].row
  <2>1. CASE v = w
    <3>1. op[w].held /\ op'[w].row = op[w].row /\ op'[w].uuid = k
      BY <1>5, <1>12, <2>1 DEF Idle
    <3>2. op[w].row \in Keys /\ KeyOf(device, xray, op, u, op[w].row)
      BY <3>1, OpFields DEF OpShape, KeyOf
    <3> QED BY <1>2, <1>7, <2>1, <3>1, <3>2
  <2>2. CASE v # w
    BY <1>4, <1>12, <2>2 DEF RetiredInv
  <2> QED BY <2>1, <2>2
<1> QED BY <1>8, <1>9, <1>10, <1>11, <1>12 DEF RetiredInv

\* No step brings a retired uuid back.
LEMMA RetiredStep ==
  ASSUME TypeInv, CabinetInv, RetiredInv, [Next]_vars
  PROVE  RetiredInv'
<1>1. CASE \E w \in Workers : CreateVpnDevice(w)
  BY <1>1, RetiredCreate
<1>2. CASE ~\E w \in Workers : CreateVpnDevice(w)
  <2>1. used' = used
    BY <1>2, UsedStep
  <2>2. \A u \in Users, k \in Keys :
          KeyOf(device', xray', op', u, k)
            => KeyOf(device, xray, op, u, k) /\ k \in used \ retired
    BY <1>2, KeysFlow DEF RetiredInv
  <2>3. \A u, v \in Users, k \in Keys :
          KeyOf(device', xray', op', u, k) /\ KeyOf(device', xray', op', v, k)
            => u = v
    BY <2>2 DEF RetiredInv
  <2>4. \A w \in Workers :
          /\ op'[w].step = "delete" \/ op'[w].held
               => xray'[op'[w].user] # op'[w].row
          /\ op'[w].step = "created" /\ op'[w].held => op'[w].uuid # op'[w].row
    BY <1>2, ReplacementStep
  <2>5. CASE retired' = retired
    BY <2>1, <2>2, <2>3, <2>4, <2>5 DEF RetiredInv
  <2>6. ASSUME NEW w \in Workers, CreateCommit(w), retired' # retired
        PROVE  RetiredInv'
    <3> DEFINE u == op[w].user
               r == op[w].row
    <3>1. /\ op[w].step = "created" /\ op[w].held
          /\ retired' = retired \union {r}
          /\ device' = [device EXCEPT ![u] = [uuid |-> op[w].uuid,
                                              sub |-> op[w].sub,
                                              status |-> "active"]]
          /\ Becomes(w, Idle)
          /\ xray' = xray
      BY <2>6 DEF CreateCommit
    <3>2. /\ w = Web
          /\ u \in Users
          /\ u \notin BotUsers \union {Nobody}
          /\ r \in Keys
      BY <3>1, OpFields, UsersAssumption DEF CabinetInv, OpShape, Users
    <3>3. KeyOf(device, xray, op, u, r)
      BY DEF KeyOf
    <3>4. ASSUME NEW v \in Users, KeyOf(device', xray', op', v, r)
          PROVE  FALSE
      <4>1. v = u
        BY <2>2, <3>2, <3>3, <3>4 DEF RetiredInv
      <4>2. device'[u].uuid # r
        BY <3>1, <3>2 DEF RetiredInv, TypeInv, TablesOK
      <4>3. xray'[u] # r
        BY <3>1 DEF RetiredInv
      <4>4. \A x \in Workers : op'[x].user # u
        BY <3>1, <3>2 DEF Becomes, CabinetInv, TypeInv, WorkersOK, Idle
      <4> QED BY <3>4, <4>1, <4>2, <4>3, <4>4 DEF KeyOf
    <3>5. r \in used
      BY <3>2, <3>3 DEF RetiredInv
    <3>6. retired' \subseteq used'
      BY <2>1, <3>1, <3>5 DEF RetiredInv
    <3>7. \A v \in Users, k \in Keys :
            KeyOf(device', xray', op', v, k) => k \in used' \ retired'
      BY <2>1, <2>2, <3>1, <3>4
    <3> QED BY <2>3, <2>4, <3>6, <3>7 DEF RetiredInv
  <2> QED BY <1>2, <2>5, <2>6, UsedStep
<1> QED BY <1>1, <1>2

\* Once a regeneration is committed, no step of any actor, however stale the
\* row it has loaded, puts the replaced uuid back into Xray or the database.
THEOREM RetiredKeysStayDeadCorrect == Spec => []RetiredKeysStayDead
<1>1. TypeInv /\ CabinetInv /\ RetiredInv /\ [Next]_vars
        => CabinetInv' /\ RetiredInv'
  BY CabinetStep, RetiredStep
<1>2. TypeInv /\ RetiredInv => RetiredKeysStayDead
  <2> SUFFICES ASSUME TypeInv, RetiredInv, NEW u \in Users
               PROVE  xray[u] \notin retired /\ device[u].uuid \notin retired
    BY DEF RetiredKeysStayDead
  <2>1. retired \subseteq Keys
    BY DEF TypeInv, UuidsOK
  <2> QED BY <2>1 DEF RetiredInv, KeyOf
<1> QED BY <1>1, <1>2, CabinetInit, RetiredInit, TypeCorrect, PTL DEF Spec

-----------------------------------------------------------------------------
(* Without faults of the agent and of the processes, no key is left behind  *)
(* that no row and no operation knows, however operations overlap.          *)

\* The row that an operation shows, restores or replaces is the row as it is:
\* it cannot have changed since it was loaded.
LoadedInv ==
  \A w \in Workers :
    op[w].step \in {"sync", "restore"} \/ op[w].held
      => op[w].row = device[op[w].user].uuid

\* What a worker has loaded stays true, as only the web process replaces rows and
\* only for the users that it alone works for.
LEMMA LoadedStep ==
  ASSUME TypeInv, CabinetInv, LoadedInv, [Next]_vars
  PROVE  LoadedInv'
<1> SUFFICES ASSUME NEW w \in Workers, op'[w].step \in {"sync", "restore"} \/ op'[w].held
             PROVE  op'[w].row = device'[op'[w].user].uuid
  BY DEF LoadedInv
<1>1. ASSUME op[w].step \in {"sync", "restore"} \/ op[w].held, op'[w] # Idle
      PROVE  op[w].row = device'[op[w].user].uuid
  <2> DEFINE u == op[w].user
  <2>1. u \in Users /\ op[w].row = device[u].uuid /\ op[w].row \in Keys
    BY <1>1, OpFields DEF LoadedInv, OpShape
  <2>2. device[u] # NoDevice
    BY <2>1, KeysAssumption DEF NoDevice
  <2>3. CASE u \in WebUsers /\ op[Web].held /\ InsertedBy(Web, u)
    <3>1. w = Web
      BY <2>3, UsersAssumption DEF CabinetInv, Users
    <3>2. op'[Web] = Idle \/ device' = device
      BY <2>3 DEF InsertedBy, CreateCommit, Becomes, TypeInv, WorkersOK, Workers
    <3> QED BY <1>1, <2>1, <3>1, <3>2
  <2> QED BY <2>1, <2>2, <2>3, KeyStep
<1>2. CASE op'[w] = op[w]
  BY <1>1, <1>2 DEF Idle
<1>3. CASE op'[w] = Idle \/ Paid(w)
  BY <1>3 DEF Idle, Paid
<1>4. CASE Loads(w)
  BY <1>4 DEF Loads, TypeInv, WorkersOK, Idle
<1>5. CASE Advances(w)
  <2>1. op'[w].held /\ op'[w] # Idle /\ op'[w].user = op[w].user /\ op'[w].row = op[w].row
    BY <1>5 DEF Advances, Working, Idle
  <2>2. CASE op[w].held
    BY <1>1, <2>1, <2>2
  <2>3. CASE DeleteOldRow(w)
    <3>1. device' = device /\ device[op[w].user].uuid = op[w].row
      BY <2>1, <2>3 DEF DeleteOldRow, Becomes, TypeInv, WorkersOK
    <3> QED BY <2>1, <3>1
  <2> QED BY <1>5, <2>1, <2>2, <2>3 DEF Advances
<1> QED BY <1>2, <1>3, <1>4, <1>5, WorkerStep

Reliable == Faults \intersect {"agent", "crash"} = {}

\* A worker that holds the key of a user's client, to store or to take back.
Holds(w, u) ==
  /\ op[w].user = u
  /\ op[w].step \in {"created", "undo"}
  /\ op[w].uuid = xray[u]

Known(u) == xray[u] = device[u].uuid \/ \E w \in Workers : Holds(w, u)

\* A worker that holds the key stores it, goes on to take it back, or takes it back.
LEMMA HoldsStep ==
  ASSUME Reliable, TypeInv, [Next]_vars, NEW u \in Users, NEW w \in Workers,
         Holds(w, u), xray'[u] = xray[u], xray[u] # NoKey
  PROVE  Known(u)'
<1>0. op \in [Workers -> Op] /\ device \in [Users -> Device]
  BY DEF TypeInv, WorkersOK, TablesOK
<1>1. CASE op'[w] = op[w]
  BY <1>1 DEF Known, Holds
<1>2. CASE CreateCommit(w)
  <2>1. CASE op'[w] = [op[w] EXCEPT !.step = "undo", !.held = FALSE]
    BY <1>0, <2>1 DEF Known, Holds, Op
  <2>2. CASE device' = [device EXCEPT ![u] = [uuid |-> op[w].uuid, sub |-> op[w].sub,
                                              status |-> "active"]]
    BY <1>0, <2>2 DEF Known, Holds
  <2> QED BY <1>0, <1>2, <2>1, <2>2 DEF CreateCommit, Becomes, Holds
<1>3. CASE UndoProvision(w)
  <2>1. PICK ok \in BOOLEAN : RemoveUser(xray[u], ok)
    BY <1>3 DEF UndoProvision, Holds
  <2>2. Registered(xray[u])
    BY DEF Registered
  <2>3. xray' = Without(xray[u])
    BY <2>1, <2>2 DEF RemoveUser, Reliable
  <2> QED BY <2>3 DEF Without
<1>4. CASE Proceed(w)
  BY <1>2, <1>3, <1>4 DEF Proceed, Holds, SyncDeviceToXray, RestoreVpnDevice, RestoreCommit,
    CreateVpnDevice, RevokeOldKey, DeleteOldRow
<1>5. CASE ~Proceed(w)
  <2>1. ASSUME NEW v \in Workers, v # w, Proceed(v) PROVE op'[w] = op[w]
    BY <1>0, <2>1 DEF Proceed, SyncDeviceToXray, RestoreVpnDevice, RestoreCommit, CreateVpnDevice,
      CreateCommit, UndoProvision, RevokeOldKey, DeleteOldRow, Becomes
  <2>2. ASSUME NEW v \in Workers, Crash(v) PROVE FALSE
    BY <2>2 DEF Crash, Reliable
  <2>3. ASSUME NEW v \in Workers, NEW x \in Users, EnsureVpnKey(v, x) PROVE op'[w] = op[w]
    <3>1. v # w
      BY <2>3 DEF EnsureVpnKey, Holds, Idle
    <3> QED BY <1>0, <2>3, <3>1 DEF EnsureVpnKey, Becomes
  <2>4. ASSUME NEW x \in Users, (\E p \in Products : Activate(x, p)) \/ RegenerateVpnKey(x)
        PROVE  op'[w] = op[w]
    <3>1. op[Web] = Idle
      BY <2>4 DEF Activate, RegenerateVpnKey
    <3>2. w # Web
      BY <3>1 DEF Holds, Idle
    <3> QED BY <1>0, <2>4, <3>2 DEF Activate, RegenerateVpnKey, Becomes
  <2>5. CASE NoSubscription
    BY <1>0, <1>1, <2>5 DEF NoSubscription, Holds, Becomes
  <2>6. CASE \/ \E s \in DOMAIN subs : Lapse(s)
             \/ ExpiryJob \/ ExpireCrash \/ Monitor \/ PollCrash
             \/ UNCHANGED vars
    BY <1>1, <2>6 DEF Lapse, ExpiryJob, ExpireLoad, ExpireRevoke, ExpireCommit, ExpireCrash,
      Monitor, PollLoad, SuspendDevice, PollCommit, PollCrash, vars
  <2> QED BY <1>1, <1>5, <2>1, <2>2, <2>3, <2>4, <2>5, <2>6 DEF Next
<1> QED BY <1>4, <1>5

\* A client stays known, or gets the uuid of the row, or a new one that its worker
\* holds.
LEMMA ForeignStep ==
  ASSUME Reliable, TypeInv, CabinetInv, RetiredInv, LoadedInv, NoForeignKey, [Next]_vars
  PROVE  NoForeignKey'
<1> SUFFICES ASSUME NEW u \in Users, xray'[u] # NoKey PROVE Known(u)'
  BY DEF NoForeignKey, Known, Holds
<1>0. op \in [Workers -> Op] /\ device \in [Users -> Device] /\ xray \in [Users -> Keys \union {NoKey}]
  BY DEF TypeInv, WorkersOK, TablesOK, UuidsOK
<1>1. CASE xray'[u] = xray[u]
  <2>1. xray[u] = device[u].uuid \/ \E w \in Workers : Holds(w, u)
    BY <1>1 DEF NoForeignKey, Holds
  <2>2. CASE xray[u] = device[u].uuid
    <3>1. device[u] # NoDevice
      BY <1>1, <2>2 DEF NoDevice
    <3>2. ~(op[Web].held /\ InsertedBy(Web, u))
      BY <2>2 DEF InsertedBy, RetiredInv, LoadedInv, Workers
    <3> QED BY <1>1, <2>2, <3>1, <3>2, KeyStep DEF Known
  <2> QED BY <1>1, <2>1, <2>2, HoldsStep
<1>2. ASSUME NEW w \in Workers, CreateVpnDevice(w), xray'[u] # xray[u] PROVE Known(u)'
  <2>1. PICK k \in Keys \ used, ok \in BOOLEAN :
          /\ AddUser(op[w].user, k, ok)
          /\ Becomes(w, IF ok THEN [op[w] EXCEPT !.step = "created", !.uuid = k] ELSE Idle)
    BY <1>2 DEF CreateVpnDevice
  <2>2. ok /\ xray' = [xray EXCEPT ![op[w].user] = k]
    BY <2>1 DEF AddUser, Reliable
  <2>3. op[w].user = u /\ xray'[u] = k
    BY <1>0, <1>2, <2>2
  <2> QED BY <1>0, <2>1, <2>2, <2>3 DEF Becomes, Known, Holds, Op
<1>3. ASSUME NEW w \in Workers, SyncDeviceToXray(w) \/ RestoreVpnDevice(w), xray'[u] # xray[u]
      PROVE  Known(u)'
  <2>1. device' = device /\ op[w].row = device[op[w].user].uuid
    BY <1>3 DEF SyncDeviceToXray, RestoreVpnDevice, LoadedInv
  <2>2. xray' = [xray EXCEPT ![op[w].user] = op[w].row]
    BY <1>3 DEF SyncDeviceToXray, RestoreVpnDevice, AddUser, Reliable
  <2> QED BY <1>0, <1>3, <2>1, <2>2 DEF Known
<1>4. CASE ~\E w \in Workers : CreateVpnDevice(w) \/ SyncDeviceToXray(w) \/ RestoreVpnDevice(w)
  <2>1. xray'[u] \in {xray[u], NoKey}
    BY <1>4 DEF Next, Proceed, ExpiryJob, Monitor, RemoveUser, Without,
      Activate, Lapse, NoSubscription, RegenerateVpnKey, EnsureVpnKey, RestoreCommit, CreateCommit,
      UndoProvision, RevokeOldKey, DeleteOldRow, Crash, ExpireLoad, ExpireRevoke, ExpireCommit,
      ExpireCrash, PollLoad, SuspendDevice, PollCommit, PollCrash, vars
  <2> QED BY <1>1, <2>1
<1> QED BY <1>1, <1>2, <1>3, <1>4

\* As long as the agent answers and the processes live, whatever overlaps and
\* whichever commits fail, a client of Xray has the uuid of its user's row or of
\* an operation that is about to store it or to take it back.
THEOREM NoForeignKeyCorrect ==
  ASSUME Faults \intersect {"agent", "crash"} = {}
  PROVE  Spec => []NoForeignKey
<1> DEFINE IInv == CabinetInv /\ RetiredInv /\ LoadedInv /\ NoForeignKey
<1>1. Init => IInv
  <2>1. Init => LoadedInv /\ NoForeignKey
    BY DEF Init, LoadedInv, NoForeignKey, Idle
  <2> QED BY <2>1, CabinetInit, RetiredInit
<1>2. TypeInv /\ IInv /\ [Next]_vars => IInv'
  BY CabinetStep, RetiredStep, LoadedStep, ForeignStep DEF Reliable
<1> QED BY <1>1, <1>2, TypeCorrect, PTL DEF Spec

-----------------------------------------------------------------------------
(* VpnKeys implements KeyBook.                                             *)

keys == [u \in Users |-> device[u].uuid]

\* The start of the system is a start of the book.
LEMMA BookInit == Init => Book!Init
BY DEF Init, NoDevice, Book!Init

\* A uuid is the client of one user at most, so that removing it silences no
\* second user.
LEMMA RemovesOne ==
  ASSUME TypeInv, RetiredInv, NEW k, NEW ok \in BOOLEAN, RemoveUser(k, ok)
  PROVE  xray' = xray \/ \E u \in Users : xray' = [xray EXCEPT ![u] = NoKey]
<1>0. xray \in [Users -> Keys \union {NoKey}]
  BY DEF TypeInv, UuidsOK
<1>1. CASE \A u \in Users : xray[u] # k \/ xray[u] = NoKey
  <2>1. Without(k) = xray
    BY <1>0, <1>1 DEF Without
  <2> QED BY <2>1 DEF RemoveUser
<1>2. ASSUME NEW u \in Users, xray[u] = k, k # NoKey
      PROVE  Without(k) = [xray EXCEPT ![u] = NoKey]
  <2>1. k \in Keys
    BY <1>0, <1>2
  <2>2. \A v \in Users \ {u} : xray[v] # k
    BY <1>2, <2>1 DEF RetiredInv, KeyOf
  <2> QED BY <1>0, <1>2, <2>2 DEF Without
<1> QED BY <1>1, <1>2 DEF RemoveUser

\* A creation draws a uuid, which may answer even if the request failed.
LEMMA BookCreate ==
  ASSUME TypeInv, NEW w \in Workers, CreateVpnDevice(w)
  PROVE  Book!Next
<1>1. PICK u \in Users : op[w].user = u
  BY OpFields DEF CreateVpnDevice, OpShape
<1>2. PICK k \in Keys \ used, ok \in BOOLEAN : AddUser(u, k, ok) /\ used' = used \union {k}
  BY <1>1 DEF CreateVpnDevice
<1>3. xray' \in {xray, [xray EXCEPT ![u] = k]} /\ keys' = keys /\ retired' = retired
  BY <1>2 DEF AddUser, CreateVpnDevice, keys
<1>4. Book!Draw(u, k)
  BY <1>2, <1>3 DEF Book!Draw, keys
<1> QED BY <1>4 DEF Book!Next

\* The commit of a creation issues a first key, or replaces the old one, of
\* which no client is left.
LEMMA BookCommit ==
  ASSUME TypeInv, CabinetInv, RetiredInv, LoadedInv, NEW w \in Workers, CreateCommit(w)
  PROVE  Book!Next \/ UNCHANGED <<keys, xray, used, retired>>
<1>1. PICK u \in Users : op[w].user = u
  BY OpFields DEF CreateCommit, OpShape
<1>2. PICK k \in Keys : op[w].uuid = k
  BY OpFields DEF CreateCommit, OpShape
<1>3. UNCHANGED <<xray, used>> /\ op[w].step = "created" /\ device \in [Users -> Device]
  BY DEF CreateCommit, TypeInv, TablesOK
<1>4. k \in used \ retired /\ \A v \in Users \ {u} : device[v].uuid # k /\ xray[v] # k
  BY <1>1, <1>2 DEF RetiredInv, KeyOf
<1>5. Book!OnlyFor(u, k)
  BY <1>4 DEF Book!OnlyFor
<1>6. CASE UNCHANGED <<device, retired>>
  BY <1>3, <1>6 DEF keys
<1>7. CASE /\ MayInsert(w, u)
           /\ device' = [device EXCEPT ![u] = [uuid |-> k, sub |-> op[w].sub,
                                               status |-> "active"]]
           /\ retired' = IF op[w].held THEN retired \union {op[w].row} ELSE retired
  <2>1. keys' = [keys EXCEPT ![u] = k]
    BY <1>3, <1>7 DEF keys
  <2>2. CASE ~op[w].held
    <3>1. keys[u] = NoKey /\ retired' = retired
      BY <1>7, <2>2 DEF MayInsert, NoDevice, keys
    <3>2. Book!Issue(u, k)
      BY <1>3, <1>4, <1>5, <2>1, <3>1 DEF Book!Issue, keys
    <3> QED BY <3>2 DEF Book!Next
  <2>3. CASE op[w].held
    <3>1. /\ u \in WebUsers /\ keys[u] = op[w].row /\ op[w].row \in Keys
          /\ xray[u] # op[w].row /\ k # op[w].row
      BY <1>1, <1>2, <1>3, <2>3, OpFields
      DEF CabinetInv, LoadedInv, RetiredInv, OpShape, keys
    <3>2. retired' = retired \union {keys[u]}
      BY <1>7, <2>3, <3>1
    <3>3. Book!Replace(u, k)
      BY <1>3, <1>4, <1>5, <2>1, <3>1, <3>2, KeysAssumption DEF Book!Replace, keys
    <3> QED BY <3>3 DEF Book!Next
  <2> QED BY <2>2, <2>3
<1> QED BY <1>1, <1>2, <1>6, <1>7 DEF CreateCommit

\* Showing or restoring a key connects the user with the user's own uuid.
LEMMA BookConnect ==
  ASSUME TypeInv, LoadedInv, NEW w \in Workers, SyncDeviceToXray(w) \/ RestoreVpnDevice(w)
  PROVE  Book!Next \/ UNCHANGED <<keys, xray, used, retired>>
<1>1. PICK u \in Users : op[w].user = u
  BY OpFields DEF SyncDeviceToXray, RestoreVpnDevice, OpShape
<1>2. UNCHANGED <<keys, used, retired>> /\ op[w].step \in {"sync", "restore"}
  BY DEF SyncDeviceToXray, RestoreVpnDevice, keys
<1>3. op[w].row = keys[u] /\ op[w].row \in Keys
  BY <1>1, <1>2, OpFields DEF LoadedInv, OpShape, keys
<1>4. \E ok \in BOOLEAN : AddUser(u, keys[u], ok)
  BY <1>1, <1>3 DEF SyncDeviceToXray, RestoreVpnDevice
<1>5. xray' = xray \/ xray' = [xray EXCEPT ![u] = keys[u]]
  BY <1>4 DEF AddUser
<1>6. CASE xray' = [xray EXCEPT ![u] = keys[u]]
  <2>1. Book!Connect(u)
    BY <1>2, <1>3, <1>6, KeysAssumption DEF Book!Connect, keys
  <2> QED BY <2>1 DEF Book!Next
<1> QED BY <1>2, <1>5, <1>6

\* Whatever an undo, a regeneration, the job or the monitor removes, from whatever
\* snapshot, is the client of one user.
LEMMA RemovalStep ==
  ASSUME TypeInv, RetiredInv,
         \/ \E w \in Workers : UndoProvision(w) \/ RevokeOldKey(w)
         \/ \E v \in Users : ExpireRevoke(v) \/ SuspendDevice(v)
  PROVE  xray' = xray \/ \E u \in Users : xray' = [xray EXCEPT ![u] = NoKey]
<1>1. ASSUME NEW w \in Workers, UndoProvision(w) \/ RevokeOldKey(w)
      PROVE  \E ok \in BOOLEAN : RemoveUser(op[w].uuid, ok) \/ RemoveUser(op[w].row, ok)
  BY <1>1 DEF UndoProvision, RevokeOldKey
<1>2. ASSUME NEW v \in Users, ExpireRevoke(v)
      PROVE  xray' = xray \/ \E ok \in BOOLEAN : RemoveUser(sweep.rows[v], ok)
  BY <1>2 DEF ExpireRevoke
<1>3. ASSUME NEW v \in Users, SuspendDevice(v)
      PROVE  \E ok \in BOOLEAN : RemoveUser(poll.rows[v], ok)
  BY <1>3 DEF SuspendDevice
<1> QED BY <1>1, <1>2, <1>3, RemovesOne

\* Whoever removes a uuid switches one user off.
LEMMA BookRemove ==
  ASSUME TypeInv, RetiredInv,
         \/ \E w \in Workers : UndoProvision(w) \/ RevokeOldKey(w)
         \/ \E v \in Users : ExpireRevoke(v) \/ SuspendDevice(v)
  PROVE  Book!Next \/ UNCHANGED <<keys, xray, used, retired>>
<1>1. UNCHANGED <<keys, used, retired>>
  BY DEF UndoProvision, RevokeOldKey, ExpireRevoke, SuspendDevice, keys
<1>2. xray' = xray \/ \E u \in Users : xray' = [xray EXCEPT ![u] = NoKey]
  BY RemovalStep
<1>3. ASSUME NEW u \in Users, xray' = [xray EXCEPT ![u] = NoKey] PROVE Book!Next
  <2>1. Book!Disconnect(u)
    BY <1>1, <1>3 DEF Book!Disconnect, keys
  <2> QED BY <2>1 DEF Book!Next
<1> QED BY <1>1, <1>2, <1>3

\* Every other step leaves the book alone.
LEMMA BookRest ==
  ASSUME TypeInv, [Next]_vars,
         ~\E w \in Workers : \/ CreateVpnDevice(w) \/ CreateCommit(w) \/ SyncDeviceToXray(w)
                             \/ RestoreVpnDevice(w) \/ UndoProvision(w) \/ RevokeOldKey(w),
         ~\E v \in Users : ExpireRevoke(v) \/ SuspendDevice(v)
  PROVE  UNCHANGED <<keys, xray, used, retired>>
<1>1. ASSUME NEW u \in Users PROVE device'[u].uuid = device[u].uuid
  <2>1. ~\E w \in Workers : InsertedBy(w, u)
    BY DEF InsertedBy
  <2> QED BY <2>1, DeviceStep DEF Moved, Closed, RestoredBy
<1>2. UNCHANGED <<used, retired>>
  BY UsedStep
<1>3. xray' = xray
  BY DEF Next, Proceed, ExpiryJob, Monitor, Activate, Lapse, NoSubscription, RegenerateVpnKey,
    EnsureVpnKey, RestoreCommit, DeleteOldRow, Crash, ExpireLoad, ExpireCommit, ExpireCrash,
    PollLoad, PollCommit, PollCrash, vars
<1> QED BY <1>1, <1>2, <1>3 DEF keys

\* Every step of the system is a step of the book or leaves it alone.
LEMMA BookStep ==
  TypeInv /\ CabinetInv /\ RetiredInv /\ LoadedInv /\ [Next]_vars => [Book!Next]_(Book!book)
<1> SUFFICES ASSUME TypeInv, CabinetInv, RetiredInv, LoadedInv, [Next]_vars
    PROVE  Book!Next \/ UNCHANGED <<keys, xray, used, retired>>
  BY DEF Book!book, keys
<1> QED BY BookCreate, BookCommit, BookConnect, BookRemove, BookRest

\* However operations overlap and whatever fails, rows and clients live by the
\* book: a uuid is one user's, and gives way only to a site user's request.
THEOREM KeyBookCorrect == Spec => ImplementsKeyBook
<1>1. Init => LoadedInv
  BY DEF Init, LoadedInv, Idle
<1>2. TypeInv /\ CabinetInv /\ RetiredInv /\ LoadedInv /\ [Next]_vars
        => CabinetInv' /\ RetiredInv' /\ LoadedInv'
  BY CabinetStep, RetiredStep, LoadedStep
<1> QED BY <1>1, <1>2, BookInit, BookStep, CabinetInit, RetiredInit, TypeCorrect, PTL
        DEF Spec, ImplementsKeyBook, Book!Spec

-----------------------------------------------------------------------------
(* Agents are called and answer as AgentContract says.                     *)

\* The one agent of VpnKeys, for a given owner of each uuid: emails are made from users.
Agent(owner) == INSTANCE AgentEffects WITH
  Tags <- {"vpn"}, Ids <- Keys, EmailOf <- owner, Reserved <- {}

\* The clients of the agent in the words of AgentContract.
ClientsIn(x) == [t \in {"vpn"} |-> {x[u] : u \in Users} \ {NoKey}]

\* Clients have the email of the uuid's owner.
Belongs(owner, x) == \A u \in Users : x[u] # NoKey => owner[x[u]] = u

\* A uuid is a client exactly if its owner is let in with it.
LEMMA ClientsFacts ==
  ASSUME NEW x \in [Users -> Keys \union {NoKey}], NEW owner \in [Keys -> Users], Belongs(owner, x),
         NEW j \in Keys
  PROVE  j \in ClientsIn(x)["vpn"] <=> x[owner[j]] = j
<1>1. j \in ClientsIn(x)["vpn"] <=> \E u \in Users : x[u] = j
  BY KeysAssumption DEF ClientsIn
<1>2. ASSUME NEW u \in Users, x[u] = j PROVE u = owner[j]
  BY <1>2, KeysAssumption DEF Belongs
<1>3. owner[j] \in Users
  OBVIOUS
<1> QED BY <1>1, <1>2, <1>3

\* A uuid that replaces whatever client its owner has is the contract's addition,
\* and the only outcome the contract leaves.
LEMMA AddAgrees ==
  ASSUME NEW x \in [Users -> Keys \union {NoKey}], NEW y \in [Users -> Keys \union {NoKey}],
         NEW owner \in [Keys -> Users], Belongs(owner, x), Belongs(owner, y),
         NEW k \in Keys, NEW u \in Users, owner[k] = u
  PROVE  y = [x EXCEPT ![u] = k] <=> Agent(owner)!Adds("vpn", k, ClientsIn(x), ClientsIn(y))
<1>1. \A j \in Keys : /\ j \in ClientsIn(x)["vpn"] <=> x[owner[j]] = j
                      /\ j \in ClientsIn(y)["vpn"] <=> y[owner[j]] = j
  BY ClientsFacts
<1>2. Agent(owner)!Adds("vpn", k, ClientsIn(x), ClientsIn(y))
        <=> /\ y[u] = k
            /\ \A j \in Keys : y[owner[j]] = j <=> j = k \/ (x[owner[j]] = j /\ owner[j] # u)
  BY <1>1 DEF Agent!Adds
<1>3. ASSUME y = [x EXCEPT ![u] = k]
      PROVE  Agent(owner)!Adds("vpn", k, ClientsIn(x), ClientsIn(y))
  BY <1>2, <1>3
<1>4. ASSUME y[u] = k,
             \A j \in Keys : y[owner[j]] = j <=> j = k \/ (x[owner[j]] = j /\ owner[j] # u)
      PROVE  y = [x EXCEPT ![u] = k]
  <2>1. ASSUME NEW v \in Users \ {u} PROVE y[v] = x[v]
    <3>1. CASE y[v] # NoKey
      <4>1. y[v] \in Keys /\ owner[y[v]] = v
        BY <3>1 DEF Belongs
      <4> QED BY <1>4, <2>1, <4>1
    <3>2. CASE x[v] # NoKey
      <4>1. x[v] \in Keys /\ owner[x[v]] = v
        BY <3>2 DEF Belongs
      <4> QED BY <1>4, <2>1, <4>1
    <3> QED BY <3>1, <3>2
  <2> QED BY <1>4, <2>1
<1> QED BY <1>2, <1>3, <1>4

\* The same for a removal, which the contract allows for a client only.
LEMMA RemoveAgrees ==
  ASSUME NEW x \in [Users -> Keys \union {NoKey}], NEW y \in [Users -> Keys \union {NoKey}],
         NEW owner \in [Keys -> Users], Belongs(owner, x), Belongs(owner, y),
         NEW k \in Keys
  PROVE  x[owner[k]] = k /\ y = [x EXCEPT ![owner[k]] = NoKey]
           <=> Agent(owner)!Removes("vpn", k, ClientsIn(x), ClientsIn(y))
<1> DEFINE u == owner[k]
<1>1. \A j \in Keys : /\ j \in ClientsIn(x)["vpn"] <=> x[owner[j]] = j
                      /\ j \in ClientsIn(y)["vpn"] <=> y[owner[j]] = j
  BY ClientsFacts
<1>2. Agent(owner)!Removes("vpn", k, ClientsIn(x), ClientsIn(y))
        <=> /\ x[u] = k
            /\ \A j \in Keys : y[owner[j]] = j <=> x[owner[j]] = j /\ j # k
  BY <1>1 DEF Agent!Removes
<1>3. ASSUME x[u] = k, y = [x EXCEPT ![u] = NoKey], NEW j \in Keys
      PROVE  y[owner[j]] = j <=> x[owner[j]] = j /\ j # k
  BY <1>3, KeysAssumption
<1>4. ASSUME x[u] = k, \A j \in Keys : y[owner[j]] = j <=> x[owner[j]] = j /\ j # k
      PROVE  y = [x EXCEPT ![u] = NoKey]
  <2>1. ASSUME NEW v \in Users PROVE y[v] = IF v = u THEN NoKey ELSE x[v]
    <3>1. CASE y[v] # NoKey
      <4>1. y[v] \in Keys /\ owner[y[v]] = v
        BY <3>1 DEF Belongs
      <4>2. x[v] = y[v] /\ y[v] # k
        BY <1>4, <4>1
      <4> QED BY <1>4, <4>2
    <3>2. CASE x[v] # NoKey
      <4>1. x[v] \in Keys /\ owner[x[v]] = v
        BY <3>2 DEF Belongs
      <4>2. v # u => x[v] # k
        BY <4>1
      <4>3. v # u => y[v] = x[v]
        BY <1>4, <4>1, <4>2
      <4>4. v = u => y[v] # k
        BY <1>4
      <4>5. v = u => y[v] = NoKey
        <5>1. y[v] # NoKey => y[v] \in Keys /\ owner[y[v]] = v
          BY DEF Belongs
        <5> QED BY <1>4, <4>4, <5>1
      <4> QED BY <4>3, <4>5
    <3>3. v = u => x[v] # NoKey
      BY <1>4, KeysAssumption
    <3> QED BY <3>1, <3>2, <3>3
  <2> QED BY <2>1
<1> QED BY <1>2, <1>3, <1>4

\* VpnKeys expects of an agent exactly what AgentContract promises: success means
\* that the call was carried out; an error, if agents fail, that it was carried out
\* or not; and the removal of an unknown client is an error (xray_provisioner.py).
THEOREM AgentAnswers ==
  ASSUME TypeInv, xray' \in [Users -> Keys \union {NoKey}],
         NEW owner \in [Keys -> Users], Belongs(owner, xray), Belongs(owner, xray'),
         NEW u \in Users, NEW k \in Keys, owner[k] = u
  PROVE  /\ AddUser(u, k, TRUE)
              <=> Agent(owner)!Adds("vpn", k, ClientsIn(xray), ClientsIn(xray'))
         /\ AddUser(u, k, FALSE)
              <=> /\ "agent" \in Faults
                  /\ \/ UNCHANGED xray
                     \/ Agent(owner)!Adds("vpn", k, ClientsIn(xray), ClientsIn(xray'))
         /\ RemoveUser(k, TRUE)
              <=> Agent(owner)!Removes("vpn", k, ClientsIn(xray), ClientsIn(xray'))
         /\ RemoveUser(k, FALSE)
              <=> \/ k \notin ClientsIn(xray)["vpn"] /\ UNCHANGED xray
                  \/ /\ "agent" \in Faults
                     /\ \/ UNCHANGED xray
                        \/ Agent(owner)!Removes("vpn", k, ClientsIn(xray), ClientsIn(xray'))
<1>0. xray \in [Users -> Keys \union {NoKey}]
  BY DEF TypeInv, UuidsOK
<1> DEFINE added == Agent(owner)!Adds("vpn", k, ClientsIn(xray), ClientsIn(xray'))
           removed == Agent(owner)!Removes("vpn", k, ClientsIn(xray), ClientsIn(xray'))
<1>1. added <=> xray' = [xray EXCEPT ![u] = k]
  BY <1>0, AddAgrees
<1>2. removed <=> xray[u] = k /\ xray' = [xray EXCEPT ![u] = NoKey]
  BY <1>0, RemoveAgrees
<1>3. Registered(k) <=> xray[u] = k
  BY KeysAssumption DEF Registered, Belongs
<1>4. k \in ClientsIn(xray)["vpn"] <=> xray[u] = k
  BY <1>0, ClientsFacts
<1>5. ASSUME xray[u] = k PROVE Without(k) = [xray EXCEPT ![u] = NoKey]
  <2>1. \A v \in Users \ {u} : xray[v] # k
    BY KeysAssumption DEF Belongs
  <2> QED BY <1>0, <1>5, <2>1 DEF Without
<1>6. xray[u] # k => Without(k) = xray
  BY <1>0, KeysAssumption DEF Without, Belongs
<1> HIDE DEF added, removed
<1>7. /\ AddUser(u, k, TRUE) <=> added
      /\ AddUser(u, k, FALSE) <=> "agent" \in Faults /\ (UNCHANGED xray \/ added)
  BY <1>1 DEF AddUser
<1>8. RemoveUser(k, TRUE) <=> removed
  BY <1>2, <1>3, <1>5 DEF RemoveUser
<1>9. RemoveUser(k, FALSE)
        <=> \/ k \notin ClientsIn(xray)["vpn"] /\ UNCHANGED xray
            \/ "agent" \in Faults /\ (UNCHANGED xray \/ removed)
  BY <1>2, <1>3, <1>4, <1>5, <1>6 DEF RemoveUser
<1> QED BY <1>7, <1>8, <1>9 DEF added, removed

\* Nothing happens at the agent, or one client is added or removed as the contract
\* has it, where each uuid goes with the email of one owner.
AgentStep ==
  \/ UNCHANGED xray
  \/ \E owner \in [Keys -> Users], k \in Keys :
       /\ Belongs(owner, xray) /\ Belongs(owner, xray')
       /\ \/ Agent(owner)!Adds("vpn", k, ClientsIn(xray), ClientsIn(xray'))
          \/ Agent(owner)!Removes("vpn", k, ClientsIn(xray), ClientsIn(xray'))

\* No uuid is the client of two users, so there is an owner for each.
LEMMA OneOwner ==
  ASSUME TypeInv, RetiredInv, NEW u \in Users, NEW k \in Keys, \A v \in Users \ {u} : xray[v] # k
  PROVE  \E owner \in [Keys -> Users] : Belongs(owner, xray) /\ owner[k] = u
<1> DEFINE owner == [j \in Keys |-> IF \E v \in Users : xray[v] = j
                                      THEN CHOOSE v \in Users : xray[v] = j ELSE u]
<1>0. xray \in [Users -> Keys \union {NoKey}]
  BY DEF TypeInv, UuidsOK
<1>1. owner \in [Keys -> Users]
  OBVIOUS
<1>2. \A v, w \in Users : xray[v] = xray[w] /\ xray[v] # NoKey => v = w
  BY <1>0 DEF RetiredInv, KeyOf
<1>3. Belongs(owner, xray)
  <2>1. ASSUME NEW v \in Users, xray[v] # NoKey PROVE owner[xray[v]] = v
    <3>1. PICK j \in Keys : j = xray[v]
      BY <1>0, <2>1
    <3>2. owner[j] = CHOOSE w \in Users : xray[w] = j
      BY <3>1
    <3>3. xray[owner[j]] = j /\ owner[j] \in Users
      BY <3>1, <3>2
    <3> QED BY <1>2, <2>1, <3>1, <3>3
  <2> HIDE DEF owner
  <2> QED BY <2>1 DEF Belongs
<1>4. owner[k] = u
  OBVIOUS
<1> HIDE DEF owner
<1> QED BY <1>1, <1>3, <1>4

\* The client of a uuid that nobody else has is the contract's addition.
LEMMA AgentAdds ==
  ASSUME TypeInv, RetiredInv, NEW u \in Users, NEW k \in Keys, \A v \in Users \ {u} : xray[v] # k,
         xray' = [xray EXCEPT ![u] = k]
  PROVE  AgentStep
<1>0. xray \in [Users -> Keys \union {NoKey}] /\ xray' \in [Users -> Keys \union {NoKey}]
  BY DEF TypeInv, UuidsOK
<1>1. PICK owner \in [Keys -> Users] : Belongs(owner, xray) /\ owner[k] = u
  BY OneOwner
<1>2. Belongs(owner, xray')
  BY <1>0, <1>1 DEF Belongs
<1>3. Agent(owner)!Adds("vpn", k, ClientsIn(xray), ClientsIn(xray'))
  BY <1>0, <1>1, <1>2, AddAgrees
<1> QED BY <1>1, <1>2, <1>3 DEF AgentStep

\* A user switched off is the contract's removal.
LEMMA AgentRemoves ==
  ASSUME TypeInv, RetiredInv, NEW u \in Users, xray' = [xray EXCEPT ![u] = NoKey]
  PROVE  AgentStep
<1>0. xray \in [Users -> Keys \union {NoKey}] /\ xray' \in [Users -> Keys \union {NoKey}]
  BY DEF TypeInv, UuidsOK
<1>1. CASE xray[u] = NoKey
  <2>1. xray' = xray
    BY <1>0, <1>1
  <2> QED BY <2>1 DEF AgentStep
<1>2. CASE xray[u] # NoKey
  <2>1. PICK k \in Keys : k = xray[u]
    BY <1>0, <1>2
  <2>2. \A v \in Users \ {u} : xray[v] # k
    BY <2>1 DEF RetiredInv, KeyOf
  <2>3. PICK owner \in [Keys -> Users] : Belongs(owner, xray) /\ owner[k] = u
    BY <2>2, OneOwner
  <2>4. Belongs(owner, xray')
    BY <1>0, <2>3 DEF Belongs
  <2>5. Agent(owner)!Removes("vpn", k, ClientsIn(xray), ClientsIn(xray'))
    BY <1>0, <2>1, <2>3, <2>4, RemoveAgrees
  <2> QED BY <2>3, <2>4, <2>5 DEF AgentStep
<1> QED BY <1>1, <1>2

\* Whatever overlaps and fails, all that bot, site, job and monitor do to the clients
\* are additions and removals that the contract knows.
THEOREM AgentCallsCorrect == Spec => [][AgentStep]_vars
<1>1. ASSUME TypeInv, RetiredInv, [Next]_vars PROVE AgentStep
  <2>1. ASSUME NEW u \in Users, NEW k \in Keys, NEW ok \in BOOLEAN, AddUser(u, k, ok),
               \A v \in Users \ {u} : xray[v] # k
        PROVE  AgentStep
    <3>1. xray' = xray \/ xray' = [xray EXCEPT ![u] = k]
      BY <2>1 DEF AddUser
    <3> QED BY <1>1, <2>1, <3>1, AgentAdds DEF AgentStep
  <2>2. ASSUME NEW w \in Workers, CreateVpnDevice(w) PROVE AgentStep
    <3>1. PICK u \in Users : op[w].user = u
      BY <1>1, <2>2, OpFields DEF CreateVpnDevice, OpShape
    <3>2. PICK k \in Keys \ used, ok \in BOOLEAN : AddUser(u, k, ok)
      BY <2>2, <3>1 DEF CreateVpnDevice
    <3>3. \A v \in Users \ {u} : xray[v] # k
      BY <1>1, <3>2 DEF RetiredInv, KeyOf
    <3> QED BY <2>1, <3>2, <3>3
  <2>3. ASSUME NEW w \in Workers, SyncDeviceToXray(w) \/ RestoreVpnDevice(w) PROVE AgentStep
    <3>1. PICK u \in Users : op[w].user = u
      BY <1>1, <2>3, OpFields DEF SyncDeviceToXray, RestoreVpnDevice, OpShape
    <3>2. PICK k \in Keys : op[w].row = k
      BY <1>1, <2>3, OpFields DEF SyncDeviceToXray, RestoreVpnDevice, OpShape
    <3>3. PICK ok \in BOOLEAN : AddUser(u, k, ok)
      BY <2>3, <3>1, <3>2 DEF SyncDeviceToXray, RestoreVpnDevice
    <3>4. \A v \in Users \ {u} : xray[v] # k
      BY <1>1, <3>1, <3>2 DEF RetiredInv, KeyOf
    <3> QED BY <2>1, <3>3, <3>4
  <2>4. CASE \/ \E w \in Workers : UndoProvision(w) \/ RevokeOldKey(w)
             \/ \E v \in Users : ExpireRevoke(v) \/ SuspendDevice(v)
    BY <1>1, <2>4, RemovalStep, AgentRemoves DEF AgentStep
  <2>5. CASE \E w \in Workers : CreateCommit(w)
    BY <2>5 DEF CreateCommit, AgentStep
  <2> QED BY <1>1, <2>2, <2>3, <2>4, <2>5, BookRest DEF AgentStep
<1>2. TypeInv /\ CabinetInv /\ RetiredInv /\ [Next]_vars => CabinetInv' /\ RetiredInv' /\ [AgentStep]_vars
  BY <1>1, CabinetStep, RetiredStep
<1> QED BY <1>2, CabinetInit, RetiredInit, TypeCorrect, PTL DEF Spec

\* A creation gives nobody else's uuid, and none drawn before, to anybody.
LEMMA CreateFlow ==
  ASSUME TypeInv, NEW w \in Workers, CreateVpnDevice(w),
         NEW u \in Users, NEW k \in Keys, KeyOf(device', xray', op', u, k)
  PROVE  KeyOf(device, xray, op, u, k) \/ k \notin used
<1>1. PICK j \in Keys \ used, ok \in BOOLEAN :
        /\ AddUser(op[w].user, j, ok)
        /\ Becomes(w, IF ok THEN [op[w] EXCEPT !.step = "created", !.uuid = j] ELSE Idle)
  BY DEF CreateVpnDevice
<1>2. device' = device /\ op[w].user \in Users
  BY OpFields DEF CreateVpnDevice, OpShape
<1>3. xray'[u] \in {xray[u], j}
  BY <1>1, <1>2 DEF AddUser, TypeInv, UuidsOK
<1>4. \A v \in Workers \ {w} : op'[v] = op[v]
  BY <1>1 DEF Becomes, TypeInv, WorkersOK
<1>5. \/ op'[w] = Idle
      \/ op'[w].user = op[w].user /\ op'[w].row = op[w].row /\ op'[w].uuid = j
  BY <1>1 DEF Becomes, TypeInv, WorkersOK, Op
<1> QED BY <1>1, <1>2, <1>3, <1>4, <1>5, KeysAssumption DEF KeyOf, Idle

\* A uuid is held by one user, and no step hands it to anybody who did not hold it
\* unless it has just been drawn: whoever it is drawn for is its only holder for ever,
\* so that the email sent with it is always the same, which XrayAgent assumes.
OneHolder ==
  \A u \in Users, k \in Keys : KeyOf(device', xray', op', u, k) =>
    /\ KeyOf(device, xray, op, u, k) \/ k \notin used
    /\ \A v \in Users \ {u} : ~KeyOf(device', xray', op', v, k)

\* However stale the rows that operations and jobs work with.
THEOREM OneHolderCorrect == Spec => [][OneHolder]_vars
<1>1. ASSUME TypeInv, CabinetInv, RetiredInv, [Next]_vars PROVE OneHolder
  <2>1. RetiredInv'
    BY <1>1, RetiredStep
  <2>2. ASSUME NEW u \in Users, NEW k \in Keys, KeyOf(device', xray', op', u, k)
        PROVE  KeyOf(device, xray, op, u, k) \/ k \notin used
    BY <1>1, <2>2, KeysFlow, CreateFlow
  <2>3. \A u, v \in Users, k \in Keys :
          KeyOf(device', xray', op', u, k) /\ KeyOf(device', xray', op', v, k) => u = v
    BY <2>1 DEF RetiredInv, KeyOf
  <2> QED BY <2>2, <2>3 DEF OneHolder
<1>2. TypeInv /\ CabinetInv /\ RetiredInv /\ [Next]_vars => CabinetInv' /\ RetiredInv' /\ [OneHolder]_vars
  BY <1>1, CabinetStep, RetiredStep
<1> QED BY <1>2, CabinetInit, RetiredInit, TypeCorrect, PTL DEF Spec

-----------------------------------------------------------------------------
(* Users whom nothing has come in the way of.                               *)

\* The subscription that came last is the one that may be active.
NewestInv ==
  \A s, t \in DOMAIN subs :
    /\ s < t
    /\ subs[s].user = subs[t].user
    /\ subs[s].product \in VpnLine /\ subs[t].product \in VpnLine
    => subs[s].status = "expired"

\* A VPN purchase closes whatever VPN subscription its user has.
LEMMA NewestStep ==
  ASSUME TypeInv, NewestInv, [Next]_vars PROVE NewestInv'
<1>0. subs \in Seq(Subscription) /\ DOMAIN subs = 1..Len(subs) /\ Len(subs) \in Nat
  BY LenProperties DEF TypeInv, TablesOK
<1>1. ASSUME NEW u \in Users, NEW p \in Products, Activate(u, p) PROVE NewestInv'
  <2> DEFINE n == Len(subs) + 1
  <2>1. /\ subs'[n] = NewSubscription(u, p)
        /\ \A s \in DOMAIN subs :
              /\ subs'[s].user = subs[s].user
              /\ subs'[s].product = subs[s].product
              /\ subs'[s].status =
                   IF s \in Replaced(u, p) THEN "expired" ELSE subs[s].status
        /\ DOMAIN subs' = DOMAIN subs \union {n}
    BY <1>1, ActivateSubs DEF TypeInv, TablesOK
  <2>2. subs'[n].user = u /\ subs'[n].product = p
    BY <2>1 DEF NewSubscription
  <2>3. \A s \in DOMAIN subs : subs[s].status \in {"active", "expired"}
    BY DomainIsNat DEF Subscription
  <2>4. ASSUME p \in VpnLine, NEW s \in DOMAIN subs, subs[s].user = u, subs[s].product \in VpnLine
        PROVE  subs'[s].status = "expired"
    BY <2>1, <2>3, <2>4 DEF Replaced, Conflicting, VpnLine
  <2>5. SUFFICES ASSUME NEW s \in DOMAIN subs', NEW t \in DOMAIN subs', s < t,
                        subs'[s].user = subs'[t].user,
                        subs'[s].product \in VpnLine, subs'[t].product \in VpnLine
                 PROVE  subs'[s].status = "expired"
    BY DEF NewestInv
  <2>6. s \in DOMAIN subs
    BY <1>0, <2>1, <2>5
  <2>7. CASE t = n
    BY <2>1, <2>2, <2>4, <2>5, <2>6, <2>7
  <2>8. CASE t \in DOMAIN subs
    BY <2>1, <2>5, <2>6, <2>8 DEF NewestInv
  <2> QED BY <2>1, <2>7, <2>8
<1>2. ASSUME RowsOnlyClose PROVE NewestInv'
  BY <1>2 DEF RowsOnlyClose, NewestInv
<1> QED BY <1>1, <1>2, SubsStep

\* A uuid is of no user but u.
Own(u, k) == k \in used /\ \A v \in Users \ {u} : ~KeyOf(device, xray, op, v, k)

\* It is, if u has it, ...
LEMMA OwnHeld ==
  ASSUME RetiredInv, NEW u \in Users, NEW k \in Keys, KeyOf(device, xray, op, u, k)
  PROVE  Own(u, k)
BY DEF Own, RetiredInv

\* ... and remains it, although u may give it up.
LEMMA OwnStep ==
  ASSUME TypeInv, [Next]_vars, NEW u \in Users, NEW k \in Keys, Own(u, k)
  PROVE  Own(u, k)'
<1>1. used \subseteq used'
  BY UsedStep DEF CreateVpnDevice
<1>2. ASSUME NEW v \in Users \ {u}, KeyOf(device', xray', op', v, k) PROVE FALSE
  BY <1>2, KeysFlow, CreateFlow DEF Own
<1> QED BY <1>1, <1>2 DEF Own

\* The jobs work with uuids of the users they stand for, however old.
SnapshotInv ==
  /\ \A u \in Users : /\ sweep.rows[u] # NoKey => Own(u, sweep.rows[u])
                      /\ poll.rows[u] # NoKey => Own(u, poll.rows[u])
  /\ \A u \in sweep.left : sweep.rows[u] # NoKey
  /\ poll.left \subseteq poll.bad

\* They load rows, drop them at the end and touch one user after the other.
LEMMA JobsStep ==
  ASSUME TypeInv, [Next]_vars, NEW u \in Users
  PROVE  /\ sweep'.rows[u] \in {sweep.rows[u], NoKey, device[u].uuid}
         /\ poll'.rows[u] \in {poll.rows[u], NoKey, device[u].uuid}
         /\ u \in sweep'.left => sweep'.rows[u] # NoKey \/ (u \in sweep.left /\ sweep'.rows = sweep.rows)
         /\ u \in poll'.left => u \in poll'.bad \/ (u \in poll.left /\ poll'.bad = poll.bad)
<1>0. sweep \in Sweep /\ poll \in Poll
  BY DEF TypeInv, JobsOK
<1>1. CASE ExpireLoad
  BY <1>1 DEF ExpireLoad
<1>2. CASE PollLoad
  BY <1>2 DEF PollLoad
<1>3. ASSUME NEW v \in Users, ExpireRevoke(v) \/ SuspendDevice(v)
      PROVE  /\ sweep'.rows = sweep.rows /\ poll'.rows = poll.rows /\ poll'.bad = poll.bad
             /\ sweep'.left \subseteq sweep.left /\ poll'.left \subseteq poll.left
  BY <1>0, <1>3 DEF ExpireRevoke, SuspendDevice, Sweep, Poll
<1>4. CASE ExpireCommit \/ ExpireCrash \/ PollCommit \/ PollCrash
  BY <1>4 DEF ExpireCommit, ExpireCrash, PollCommit, PollCrash, NoSweep, NoPoll, NoRows
<1>5. CASE UNCHANGED <<sweep, poll>>
  BY <1>5
<1>6. CASE ~ExpiryJob /\ ~ExpireCrash /\ ~Monitor /\ ~PollCrash
  BY <1>5, <1>6 DEF Next, Proceed, Activate, Lapse, NoSubscription, RegenerateVpnKey, EnsureVpnKey,
    SyncDeviceToXray, RestoreVpnDevice, RestoreCommit, CreateVpnDevice, CreateCommit, UndoProvision,
    RevokeOldKey, DeleteOldRow, Crash, vars
<1> QED BY <1>1, <1>2, <1>3, <1>4, <1>6 DEF ExpiryJob, Monitor

LEMMA SnapshotStep ==
  ASSUME TypeInv, RetiredInv, SnapshotInv, [Next]_vars
  PROVE  SnapshotInv'
<1>0. device \in [Users -> Device] /\ sweep \in Sweep /\ poll \in Poll /\ TypeInv'
  BY TypeInvStep DEF TypeInv, TablesOK, JobsOK
<1>1. ASSUME NEW u \in Users, NEW k \in Keys,
             k \in {sweep.rows[u], poll.rows[u], device[u].uuid}
      PROVE  Own(u, k)'
  <2>1. Own(u, k)
    BY <1>1, OwnHeld, KeysAssumption DEF SnapshotInv, KeyOf
  <2> QED BY <2>1, OwnStep
<1>2. ASSUME NEW u \in Users
      PROVE  /\ (sweep.rows[u] # NoKey => Own(u, sweep.rows[u]))'
             /\ (poll.rows[u] # NoKey => Own(u, poll.rows[u]))'
  <2>1. sweep.rows[u] \in Keys \union {NoKey} /\ poll.rows[u] \in Keys \union {NoKey}
        /\ device[u].uuid \in Keys \union {NoKey}
    BY <1>0 DEF Sweep, Poll, Rows, Device
  <2>2. ASSUME sweep'.rows[u] # NoKey PROVE Own(u, sweep.rows[u])'
    <3>1. PICK k \in Keys : k = sweep'.rows[u]
      BY <2>1, <2>2, JobsStep
    <3>2. k \in {sweep.rows[u], poll.rows[u], device[u].uuid}
      BY <2>2, <3>1, JobsStep
    <3> QED BY <1>1, <3>1, <3>2 DEF Own
  <2>3. ASSUME poll'.rows[u] # NoKey PROVE Own(u, poll.rows[u])'
    <3>1. PICK k \in Keys : k = poll'.rows[u]
      BY <2>1, <2>3, JobsStep
    <3>2. k \in {sweep.rows[u], poll.rows[u], device[u].uuid}
      BY <2>3, <3>1, JobsStep
    <3> QED BY <1>1, <3>1, <3>2 DEF Own
  <2> QED BY <2>2, <2>3
<1>3. \A u \in sweep'.left : sweep'.rows[u] # NoKey
  BY <1>0, JobsStep DEF SnapshotInv, Sweep, TypeInv, JobsOK
<1>4. poll'.left \subseteq poll'.bad
  BY <1>0, JobsStep DEF SnapshotInv, Poll, TypeInv, JobsOK
<1> QED BY <1>2, <1>3, <1>4 DEF SnapshotInv

\* No VPN subscription of u is newer than s.
Newest(u, s) ==
  \A t \in DOMAIN subs : subs[t].user = u /\ subs[t].product \in VpnLine => t <= s

\* What an operation in progress knows of its user.
WorkOK(w) ==
  LET u == op[w].user IN
  /\ op[w].step = "sync" =>
       device[u].status = "active" /\ device[u].uuid = op[w].row /\ device[u].sub = op[w].sub
  /\ op[w].step \in {"restore", "restored"} =>
       device[u].uuid = op[w].row /\ device[u].sub = op[w].from
  /\ op[w].step = "restored" => xray[u] = op[w].row
  /\ op[w].step \in {"created", "undo"} => xray[u] = op[w].uuid
  /\ op[w].step \in Working => Newest(u, op[w].sub)

\* A client of Xray is that of the user's active row.
InOrder(u) == xray[u] = NoKey \/ (device[u].status = "active" /\ device[u].uuid = xray[u])

\* One at most is at work on u, what it has loaded is still so, and the client is
\* that of the active row or of the operation that has provisioned it.
Calm(u) ==
  /\ ~Crossed(u)
  /\ \A w \in Workers : op[w].user = u => WorkOK(w)
  /\ sweep.rows[u] # NoKey =>
       device[u].uuid = sweep.rows[u] /\ (u \notin sweep.left => xray[u] = NoKey)
  /\ u \in poll.bad =>
       device[u].uuid = poll.rows[u] /\ (u \notin poll.left => xray[u] = NoKey)
  /\ InOrder(u) \/ \E w \in Workers : /\ op[w].user = u
                                      /\ op[w].step \in {"restored", "created", "undo"}

CalmInv == \A u \in Users \ troubled : Calm(u)

\* What the steps of others rest on.
BasicInv == TypeInv /\ VpnLineInv /\ CabinetInv /\ RetiredInv /\ SnapshotInv /\ NewestInv

\* The history notes what the system does and has no say in it.
LEMMA HistoryNextIsNext == HistoryNext <=> Next /\ Noted
BY DEF HistoryNext, Next, Proceed, ExpiryJob, Monitor

\* Nothing is in progress at first.
LEMMA CalmInit == HistoryInit => SnapshotInv /\ NewestInv /\ CalmInv
<1>1. Init => SnapshotInv /\ NewestInv
  BY DEF Init, SnapshotInv, NewestInv, NoSweep, NoPoll, NoRows
<1>2. ASSUME Init, NEW u \in Users PROVE Calm(u)
  <2>1. Nobody # u
    BY UsersAssumption
  <2> QED BY <1>2, <2>1 DEF Init, Calm, Crossed, InOrder, NoSweep, NoPoll, NoRows, Idle
<1> QED BY <1>1, <1>2 DEF HistoryInit, CalmInv

\* u has no VPN subscription more than before.
NoneNewer(u) ==
  \A t \in DOMAIN subs' : subs'[t].user = u /\ subs'[t].product \in VpnLine =>
    t \in DOMAIN subs /\ subs[t].user = u /\ subs[t].product \in VpnLine

\* Only a purchase of u's own brings one.
LEMMA NoneNewerStep ==
  ASSUME TypeInv, [Next]_vars, NEW u \in Users,
         \A p \in Products : p \in VpnLine => ~Activate(u, p)
  PROVE  NoneNewer(u)
<1>1. ASSUME NEW v \in Users, NEW p \in Products, Activate(v, p) PROVE NoneNewer(u)
  <2> DEFINE n == Len(subs) + 1
  <2>1. /\ subs'[n] = NewSubscription(v, p)
        /\ \A t \in DOMAIN subs : subs'[t].user = subs[t].user /\ subs'[t].product = subs[t].product
        /\ DOMAIN subs' = DOMAIN subs \union {n}
    BY <1>1, ActivateSubs DEF TypeInv, TablesOK
  <2>2. subs'[n].user = v /\ subs'[n].product = p
    BY <2>1 DEF NewSubscription
  <2>3. v # u \/ p \notin VpnLine
    BY <1>1
  <2> QED BY <2>1, <2>2, <2>3 DEF NoneNewer
<1>2. CASE RowsOnlyClose
  BY <1>2 DEF RowsOnlyClose, NoneNewer
<1> QED BY <1>1, <1>2, SubsStep

\* A step that does not change what concerns u, or ends a job's work on u.
LEMMA CalmFrame ==
  ASSUME NEW u \in Users, Calm(u), ~Crossed(u)', NoneNewer(u),
         device'[u] = device[u], xray'[u] = xray[u],
         \A w \in Workers : op'[w].user = u => op'[w] = op[w],
         \A w \in Workers : op[w].user = u => op'[w] = op[w],
         \/ sweep'.rows[u] = NoKey
         \/ sweep'.rows[u] = sweep.rows[u] /\ (u \in sweep'.left <=> u \in sweep.left),
         \/ u \notin poll'.bad
         \/ /\ u \in poll.bad /\ poll'.rows[u] = poll.rows[u]
            /\ u \in poll'.left <=> u \in poll.left
  PROVE  Calm(u)'
<1>1. ASSUME NEW s, Newest(u, s) PROVE Newest(u, s)'
  BY <1>1 DEF Newest, NoneNewer
<1>2. ASSUME NEW w \in Workers, op'[w].user = u PROVE WorkOK(w)'
  <2>1. op'[w] = op[w] /\ op[w].user = u
    BY <1>2
  <2>2. WorkOK(w)
    BY <2>1 DEF Calm
  <2>3. PICK s : s = op[w].sub
    OBVIOUS
  <2>4. op'[w].step \in Working => Newest(u, s)'
    BY <1>1, <2>1, <2>2, <2>3 DEF WorkOK
  <2> QED BY <2>1, <2>2, <2>3, <2>4 DEF WorkOK, Newest
<1>3. sweep'.rows[u] # NoKey =>
         device'[u].uuid = sweep'.rows[u] /\ (u \notin sweep'.left => xray'[u] = NoKey)
  BY DEF Calm
<1>4. u \in poll'.bad =>
         device'[u].uuid = poll'.rows[u] /\ (u \notin poll'.left => xray'[u] = NoKey)
  BY DEF Calm
<1>5. InOrder(u)' \/ \E w \in Workers : /\ op'[w].user = u
                                        /\ op'[w].step \in {"restored", "created", "undo"}
  BY DEF Calm, InOrder
<1> QED BY <1>2, <1>3, <1>4, <1>5 DEF Calm

\* A step of the one worker that is at work on u.
LEMMA CalmTurn ==
  ASSUME TypeInv, NEW w \in Workers, NEW o, NEW u \in Users, Calm(u), ~Crossed(u)',
         op[w].user = u, Becomes(w, o), UNCHANGED <<sweep, poll>>,
         o.user = u => WorkOK(w)',
         InOrder(u)' \/ (o.user = u /\ o.step \in {"restored", "created", "undo"})
  PROVE  Calm(u)'
<1>1. op'[w] = o /\ \A v \in Workers \ {w} : op'[v] = op[v]
  BY DEF Becomes, TypeInv, WorkersOK
<1>2. /\ \A v \in Workers \ {w} : op[v].user # u
      /\ sweep.rows[u] = NoKey /\ u \notin poll.bad
  BY DEF Calm, Crossed
<1>3. \A v \in Workers : op'[v].user = u => WorkOK(v)'
  BY <1>1, <1>2
<1> QED BY <1>1, <1>2, <1>3 DEF Calm

\* While the agent answers, an addition is carried out and ends well, and a removal
\* is carried out if there is something to remove.
LEMMA SoundCalls ==
  ASSUME TypeInv, NEW u \in Users, NEW k, NEW ok \in BOOLEAN
  PROVE  /\ Sound!AddUser(u, k, ok) =>
              ok /\ xray'[u] = k /\ \A v \in Users \ {u} : xray'[v] = xray[v]
         /\ Sound!RemoveUser(k, ok) =>
              /\ xray'[u] \in {xray[u], NoKey}
              /\ xray'[u] # k \/ k = NoKey
              /\ xray[u] # k => xray'[u] = xray[u]
<1>1. "agent" \notin Faults \intersect {"commit"} /\ xray \in [Users -> Keys \union {NoKey}]
  BY DEF TypeInv, UuidsOK
<1>2. Sound!AddUser(u, k, ok) =>
              ok /\ xray'[u] = k /\ \A v \in Users \ {u} : xray'[v] = xray[v]
  BY <1>1 DEF Sound!AddUser
<1>3. Sound!RemoveUser(k, ok) =>
              /\ xray'[u] \in {xray[u], NoKey}
              /\ xray'[u] # k \/ k = NoKey
              /\ xray[u] # k => xray'[u] = xray[u]
  BY <1>1 DEF Sound!RemoveUser, Sound!Without, Sound!Registered, Sound!Users, Users
<1> QED BY <1>2, <1>3

\* An operation under way that nothing comes in the way of leaves its user in order
\* or knows why not.
LEMMA CalmWork ==
  ASSUME TypeInv, NEW w \in Workers, NEW u \in Users, op[w].user = u,
         Sound!Proceed(w), Calm(u), ~Crossed(u)'
  PROVE  Calm(u)'
<1>0. /\ op \in [Workers -> Op] /\ device \in [Users -> Device]
      /\ xray \in [Users -> Keys \union {NoKey}] /\ UNCHANGED <<subs, sweep, poll>>
      /\ Idle.step = "idle" /\ Idle.user = Nobody /\ Nobody # u
  BY UsersAssumption DEF TypeInv, WorkersOK, TablesOK, UuidsOK, Idle, Sound!Proceed,
    Sound!SyncDeviceToXray, Sound!RestoreVpnDevice, Sound!RestoreCommit, Sound!CreateVpnDevice,
    Sound!CreateCommit, Sound!UndoProvision, Sound!RevokeOldKey, Sound!DeleteOldRow
<1>1. op[w].step \in Working
  BY DEF Working, Sound!Proceed, Sound!SyncDeviceToXray, Sound!RestoreVpnDevice, Sound!RestoreCommit,
    Sound!CreateVpnDevice, Sound!CreateCommit, Sound!UndoProvision, Sound!RevokeOldKey,
    Sound!DeleteOldRow
<1>2. /\ op[w] \in Op /\ OpShape(op[w]) /\ WorkOK(w) /\ Newest(u, op[w].sub)
      /\ InOrder(u) \/ op[w].step \in {"restored", "created", "undo"}
  BY <1>1, OpFields DEF Calm, WorkOK, Crossed
<1>3. ASSUME Becomes(w, Idle), InOrder(u)' PROVE Calm(u)'
  BY <1>0, <1>3, CalmTurn
<1>s. PICK s : s = op[w].sub
  OBVIOUS
<1>4. Newest(u, s)'
  BY <1>0, <1>2, <1>s DEF Newest
<1>5. ASSUME NEW o, Becomes(w, o), o.user = u, o.sub = op[w].sub,
             o.step \in {"restored", "created", "undo"},
             o.step = "restored" =>
               device'[u].uuid = o.row /\ device'[u].sub = o.from /\ xray'[u] = o.row,
             o.step \in {"created", "undo"} => xray'[u] = o.uuid
      PROVE  Calm(u)'
  <2>1. op'[w] = o
    BY <1>0, <1>5 DEF Becomes
  <2>2. WorkOK(w)'
    BY <1>4, <1>5, <1>s, <2>1 DEF WorkOK, Newest
  <2> QED BY <1>0, <1>5, <2>2, CalmTurn
<1>6. CASE Sound!SyncDeviceToXray(w)
  <2>1. device' = device /\ op[w].step = "sync" /\ Becomes(w, Idle)
    BY <1>6 DEF Sound!SyncDeviceToXray, Sound!Becomes, Becomes, Sound!Idle, Idle
  <2>2. xray'[u] = op[w].row
    BY <1>6, SoundCalls DEF Sound!SyncDeviceToXray
  <2> QED BY <1>2, <1>3, <2>1, <2>2 DEF WorkOK, InOrder
<1>7. CASE Sound!RestoreVpnDevice(w)
  <2> DEFINE o == [op[w] EXCEPT !.step = "restored"]
  <2>1. device' = device /\ op[w].step = "restore"
    BY <1>7 DEF Sound!RestoreVpnDevice
  <2>2. PICK ok \in BOOLEAN : Sound!AddUser(u, op[w].row, ok) /\ (ok => Becomes(w, o))
    BY <1>7 DEF Sound!RestoreVpnDevice, Sound!Becomes, Becomes
  <2>r. xray'[u] = op[w].row /\ Becomes(w, o)
    BY <2>2, SoundCalls
  <2>3. o.step = "restored" /\ o.user = u /\ o.row = op[w].row /\ o.sub = op[w].sub
        /\ o.from = op[w].from
    BY <1>2 DEF Op
  <2> HIDE DEF o
  <2> QED BY <1>2, <1>5, <2>1, <2>r, <2>3 DEF WorkOK
<1>8. CASE Sound!RestoreCommit(w)
  <2>1. op[w].step = "restored" /\ xray' = xray /\ op[w].row \in Keys
        /\ device[u].uuid = op[w].row /\ device[u].sub = op[w].from /\ xray[u] = op[w].row
    BY <1>2, <1>8 DEF Sound!RestoreCommit, WorkOK, OpShape
  <2>2. CASE device' = [device EXCEPT ![u] = Restored(@, op[w])] /\ Becomes(w, Idle)
    <3>1. device'[u].status = "active" /\ device'[u].uuid = op[w].row
      BY <1>0, <1>2, <2>1, <2>2 DEF Restored, Device
    <3> QED BY <1>3, <2>1, <2>2, <3>1 DEF InOrder
  <2>3. CASE device' = device /\ Becomes(w, [op[w] EXCEPT !.step = "undo", !.uuid = op[w].row])
    <3> DEFINE o == [op[w] EXCEPT !.step = "undo", !.uuid = op[w].row]
    <3>1. o.step = "undo" /\ o.user = u /\ o.uuid = op[w].row /\ o.sub = op[w].sub
      BY <1>2 DEF Op
    <3> HIDE DEF o
    <3>2. Becomes(w, o)
      BY <2>3 DEF o
    <3> QED BY <1>5, <2>1, <3>1, <3>2
  <2> QED BY <1>8, <2>2, <2>3 DEF Sound!RestoreCommit, Sound!Becomes, Becomes, Sound!Idle, Idle,
            Sound!Restored, Restored
<1>9. CASE Sound!CreateVpnDevice(w)
  <2>1. PICK k \in Keys, ok \in BOOLEAN :
          /\ Sound!AddUser(u, k, ok)
          /\ ok => Becomes(w, [op[w] EXCEPT !.step = "created", !.uuid = k])
    BY <1>9 DEF Sound!CreateVpnDevice, Sound!Becomes, Becomes
  <2> DEFINE o == [op[w] EXCEPT !.step = "created", !.uuid = k]
  <2>2. xray'[u] = k /\ Becomes(w, o)
    BY <2>1, SoundCalls
  <2>3. o.step = "created" /\ o.user = u /\ o.uuid = k /\ o.sub = op[w].sub
    BY <1>2 DEF Op
  <2> HIDE DEF o
  <2> QED BY <1>5, <2>2, <2>3
<1>10. CASE Sound!CreateCommit(w)
  <2>1. op[w].step = "created" /\ xray' = xray /\ xray[u] = op[w].uuid
    BY <1>2, <1>10 DEF Sound!CreateCommit, WorkOK
  <2>2. CASE /\ device' = [device EXCEPT ![u] = [uuid |-> op[w].uuid, sub |-> op[w].sub,
                                                 status |-> "active"]]
             /\ Becomes(w, Idle)
    <3>1. device'[u].status = "active" /\ device'[u].uuid = op[w].uuid
      BY <1>0, <2>2
    <3> QED BY <1>3, <2>1, <2>2, <3>1 DEF InOrder
  <2>3. CASE device' = device /\ Becomes(w, [op[w] EXCEPT !.step = "undo", !.held = FALSE])
    <3> DEFINE o == [op[w] EXCEPT !.step = "undo", !.held = FALSE]
    <3>1. o.step = "undo" /\ o.user = u /\ o.uuid = op[w].uuid /\ o.sub = op[w].sub
      BY <1>2 DEF Op
    <3> HIDE DEF o
    <3>2. Becomes(w, o)
      BY <2>3 DEF o
    <3> QED BY <1>5, <2>1, <3>1, <3>2
  <2> QED BY <1>10, <2>2, <2>3 DEF Sound!CreateCommit, Sound!Becomes, Becomes, Sound!Idle, Idle
<1>11. CASE Sound!UndoProvision(w)
  <2>1. op[w].step = "undo" /\ device' = device /\ Becomes(w, Idle) /\ xray[u] = op[w].uuid
    BY <1>2, <1>11 DEF Sound!UndoProvision, WorkOK, Sound!Becomes, Becomes, Sound!Idle, Idle
  <2>2. op[w].uuid \in Keys
    BY <1>2, <2>1 DEF OpShape
  <2>3. xray'[u] = NoKey
    BY <1>11, <2>1, <2>2, SoundCalls, KeysAssumption DEF Sound!UndoProvision
  <2> QED BY <1>3, <2>1, <2>3 DEF InOrder
<1>12. CASE Sound!RevokeOldKey(w) \/ Sound!DeleteOldRow(w)
  <2>1. /\ op[w].step \in {"revoke", "delete"} /\ device' = device
        /\ xray'[u] \in {xray[u], NoKey}
    BY <1>12, SoundCalls DEF Sound!RevokeOldKey, Sound!DeleteOldRow
  <2>2. InOrder(u)'
    BY <1>2, <2>1 DEF InOrder
  <2>3. PICK o : /\ Becomes(w, o) /\ o.user \in {u, Nobody}
                 /\ o.user = u => o.sub = op[w].sub /\ o.step \in {"delete", "create"}
    <3>1. /\ [op[w] EXCEPT !.step = "delete"].user = u
          /\ [op[w] EXCEPT !.step = "delete"].sub = op[w].sub
          /\ [op[w] EXCEPT !.step = "delete"].step = "delete"
          /\ [op[w] EXCEPT !.step = "create", !.held = TRUE].user = u
          /\ [op[w] EXCEPT !.step = "create", !.held = TRUE].sub = op[w].sub
          /\ [op[w] EXCEPT !.step = "create", !.held = TRUE].step = "create"
      BY <1>2 DEF Op
    <3>2. \/ Becomes(w, Idle) \/ Becomes(w, [op[w] EXCEPT !.step = "delete"])
          \/ Becomes(w, [op[w] EXCEPT !.step = "create", !.held = TRUE])
      BY <1>12 DEF Sound!RevokeOldKey, Sound!DeleteOldRow, Sound!Becomes, Becomes, Sound!Idle, Idle
    <3> QED BY <1>0, <3>1, <3>2
  <2>4. op'[w] = o
    BY <1>0, <2>3 DEF Becomes
  <2>5. o.user = u => WorkOK(w)'
    BY <1>4, <1>s, <2>3, <2>4 DEF WorkOK, Newest
  <2> QED BY <1>0, <2>2, <2>3, <2>5, CalmTurn
<1> QED BY <1>6, <1>7, <1>8, <1>9, <1>10, <1>11, <1>12 DEF Sound!Proceed

\* A removal of what is somebody else's.
LEMMA ElsewhereRemoved ==
  ASSUME TypeInv, NEW u \in Users, NEW v \in Users \ {u}, NEW k \in Keys, Own(v, k),
         NEW ok \in BOOLEAN, RemoveUser(k, ok)
  PROVE  xray'[u] = xray[u]
BY DEF RemoveUser, Without, Own, KeyOf, TypeInv, UuidsOK

\* An operation on another user's key, whatever fails in it.
LEMMA CalmElsewhere ==
  ASSUME BasicInv, [Next]_vars, NEW w \in Workers, NEW u \in Users, op[w].user # u,
         Proceed(w), Calm(u), ~Crossed(u)'
  PROVE  Calm(u)'
<1>0. /\ op \in [Workers -> Op] /\ device \in [Users -> Device] /\ TypeInv
      /\ xray \in [Users -> Keys \union {NoKey}] /\ UNCHANGED <<subs, sweep, poll>>
  BY DEF BasicInv, TypeInv, WorkersOK, TablesOK, UuidsOK, Proceed, SyncDeviceToXray, RestoreVpnDevice,
    RestoreCommit, CreateVpnDevice, CreateCommit, UndoProvision, RevokeOldKey, DeleteOldRow
<1>1. op[w].step \in Working
  BY DEF Working, Proceed, SyncDeviceToXray, RestoreVpnDevice, RestoreCommit, CreateVpnDevice,
    CreateCommit, UndoProvision, RevokeOldKey, DeleteOldRow
<1>2. PICK v \in Users \ {u} : op[w].user = v
  BY <1>0, <1>1, OpFields DEF Working, OpShape
<1>3. device'[u] = device[u]
  BY <1>0, <1>2 DEF Proceed, SyncDeviceToXray, RestoreVpnDevice, RestoreCommit, CreateVpnDevice,
    CreateCommit, UndoProvision, RevokeOldKey, DeleteOldRow
<1>4. xray'[u] = xray[u]
  <2>1. ASSUME NEW k, NEW ok \in BOOLEAN, AddUser(v, k, ok) PROVE xray'[u] = xray[u]
    BY <1>0, <2>1 DEF AddUser
  <2>2. CASE SyncDeviceToXray(w) \/ RestoreVpnDevice(w) \/ CreateVpnDevice(w)
    BY <1>2, <2>1, <2>2 DEF SyncDeviceToXray, RestoreVpnDevice, CreateVpnDevice
  <2>3. CASE RestoreCommit(w) \/ CreateCommit(w) \/ DeleteOldRow(w)
    BY <2>3 DEF RestoreCommit, CreateCommit, DeleteOldRow
  <2>4. CASE UndoProvision(w) \/ RevokeOldKey(w)
    <3>1. PICK k \in Keys, ok \in BOOLEAN : k \in {op[w].row, op[w].uuid} /\ RemoveUser(k, ok)
      BY <1>0, <2>4, OpFields DEF UndoProvision, RevokeOldKey, OpShape
    <3>2. KeyOf(device, xray, op, v, k)
      BY <1>2, <3>1 DEF KeyOf
    <3> QED BY <1>0, <3>1, <3>2, OwnHeld, ElsewhereRemoved DEF BasicInv
  <2> QED BY <2>2, <2>3, <2>4 DEF Proceed
<1>5. \A x \in Workers : op'[x].user = u \/ op[x].user = u => op'[x] = op[x]
  <2>1. \A x \in Workers \ {w} : op'[x] = op[x]
    BY <1>0 DEF Proceed, SyncDeviceToXray, RestoreVpnDevice, RestoreCommit, CreateVpnDevice,
      CreateCommit, UndoProvision, RevokeOldKey, DeleteOldRow, Becomes
  <2>2. op'[w].user # u
    BY <1>0, <1>2, AdvanceStep, UsersAssumption DEF Advances, Idle
  <2> QED BY <2>1, <2>2
<1>6. NoneNewer(u)
  BY <1>0 DEF NoneNewer
<1> QED BY <1>0, <1>3, <1>4, <1>5, <1>6, CalmFrame

\* An operation that begins has loaded its row as it is.
LEMMA CalmLoads ==
  ASSUME BasicInv, NEW w \in Workers, NEW u \in Users, NEW v \in Users, Calm(u), ~Crossed(u)',
         EnsureVpnKey(w, v) \/ (w = Web /\ RegenerateVpnKey(v))
  PROVE  Calm(u)'
<1>0. /\ op \in [Workers -> Op] /\ TypeInv /\ NewestInv
      /\ UNCHANGED <<subs, device, xray, sweep, poll>> /\ NoneNewer(u)
      /\ Idle.user = Nobody /\ u # Nobody
  BY UsersAssumption DEF BasicInv, TypeInv, WorkersOK, EnsureVpnKey, RegenerateVpnKey, NoneNewer, Idle
<1>1. op[w] = Idle \/ (op[w].step = "start" /\ op[w].user = v)
  BY DEF EnsureVpnKey, RegenerateVpnKey
<1>2. PICK s \in Current(v), x \in {"sync", "restore", "create", "revoke"} :
        /\ x = "sync" => FoundConsolidated(v, s)
        /\ Becomes(w, [Idle EXCEPT !.step = x, !.user = v, !.sub = s,
                                   !.row = device[v].uuid, !.from = device[v].sub])
  <2>1. CASE EnsureVpnKey(w, v)
    <3>1. PICK s \in Current(v) :
            Becomes(w, [Idle EXCEPT !.step = EnsureStep(v, s), !.user = v, !.sub = s,
                                    !.row = device[v].uuid, !.from = device[v].sub])
      BY <2>1 DEF EnsureVpnKey
    <3>2. /\ EnsureStep(v, s) \in {"sync", "restore", "create"}
          /\ EnsureStep(v, s) = "sync" => FoundConsolidated(v, s)
      BY DEF EnsureStep
    <3> QED BY <3>1, <3>2
  <2>2. CASE w = Web /\ RegenerateVpnKey(v)
    <3>1. PICK s \in Current(v), x \in {"revoke", "create"} :
            Becomes(Web, [Idle EXCEPT !.step = x, !.user = v, !.sub = s,
                                      !.row = device[v].uuid, !.from = device[v].sub])
      BY <2>2 DEF RegenerateVpnKey
    <3> QED BY <2>2, <3>1
  <2> QED BY <2>1, <2>2
<1> DEFINE o == [Idle EXCEPT !.step = x, !.user = v, !.sub = s,
                             !.row = device[v].uuid, !.from = device[v].sub]
<1>3. o.step = x /\ o.user = v /\ o.sub = s /\ o.row = device[v].uuid /\ o.from = device[v].sub
  BY DEF Idle
<1>4. op'[w] = o /\ \A y \in Workers \ {w} : op'[y] = op[y]
  BY <1>0, <1>2 DEF Becomes
<1> HIDE DEF o
<1>5. CASE v # u
  <2>1. op[w].user # u /\ op'[w].user # u
    BY <1>0, <1>1, <1>3, <1>4, <1>5
  <2> QED BY <1>0, <1>4, <2>1, CalmFrame DEF Calm
<1>6. CASE v = u
  <2>1. /\ sweep.rows[u] = NoKey /\ u \notin poll.bad
        /\ \A y \in Workers \ {w} : op'[y].user # u /\ op[y].user # u
    BY <1>0, <1>3, <1>4, <1>6 DEF Crossed
  <2>2. InOrder(u)'
    <3>1. op[w].step \notin {"restored", "created", "undo"}
      BY <1>1 DEF Idle
    <3> QED BY <1>0, <2>1, <3>1 DEF Calm, InOrder
  <2>3. Newest(u, s)'
    <3>1. /\ s \in DOMAIN subs /\ subs[s].user = u /\ subs[s].product \in VpnLine
          /\ subs[s].status = "active" /\ \A t \in DOMAIN subs : t \in Nat
      BY <1>0, <1>6, DomainIsNat DEF Current
    <3>2. \A t \in DOMAIN subs : subs[t].user = u /\ subs[t].product \in VpnLine => ~(s < t)
      BY <1>0, <3>1 DEF NewestInv
    <3> QED BY <1>0, <3>1, <3>2 DEF Newest
  <2>4. WorkOK(w)'
    BY <1>0, <1>2, <1>3, <1>4, <1>6, <2>3 DEF WorkOK, FoundConsolidated, Newest
  <2> QED BY <1>0, <2>1, <2>2, <2>4 DEF Calm
<1> QED BY <1>5, <1>6

\* A purchase begins an operation of its user, or is an AI plan's.
LEMMA CalmActivate ==
  ASSUME BasicInv, [Next]_vars, NEW u \in Users, NEW v \in Users, NEW p \in Products,
         Activate(v, p), Calm(u), ~Crossed(u)'
  PROVE  Calm(u)'
<1>0. /\ op \in [Workers -> Op] /\ device \in [Users -> Device] /\ TypeInv /\ Web \in Workers
      /\ UNCHANGED <<xray, sweep, poll>> /\ op[Web] = Idle
      /\ Idle.user = Nobody /\ u # Nobody
  BY UsersAssumption DEF BasicInv, TypeInv, WorkersOK, TablesOK, Activate, Workers, Idle
<1>1. CASE v # u \/ p \notin VpnLine
  <2>1. device'[u] = device[u]
    BY <1>0, <1>1 DEF Activate, TakesOverDevice
  <2>2. \A w \in Workers : op'[w].user = u \/ op[w].user = u => op'[w] = op[w]
    <3>1. \/ op' = op
          \/ v # u /\ op' = [op EXCEPT ![Web] = [Idle EXCEPT !.step = "start", !.user = v]]
      BY <1>1 DEF Activate, Becomes
    <3>2. [Idle EXCEPT !.step = "start", !.user = v].user = v
      BY DEF Idle
    <3> QED BY <1>0, <3>1, <3>2
  <2>3. NoneNewer(u)
    <3>1. ASSUME NEW q \in Products, q \in VpnLine, Activate(u, q) PROVE FALSE
      <4>1. subs'[Len(subs) + 1] = NewSubscription(u, q)
            /\ subs'[Len(subs) + 1] = NewSubscription(v, p)
        BY <1>0, <3>1, ActivateSubs DEF TypeInv, TablesOK
      <4> QED BY <1>1, <3>1, <4>1 DEF NewSubscription
    <3> QED BY <1>0, <3>1, NoneNewerStep
  <2> QED BY <1>0, <2>1, <2>2, <2>3, CalmFrame DEF Calm
<1>2. CASE v = u /\ p \in VpnLine
  <2>1. op' = [op EXCEPT ![Web] = [Idle EXCEPT !.step = "start", !.user = u]]
    BY <1>2 DEF Activate, Becomes
  <2>2. op'[Web].step = "start" /\ op'[Web].user = u /\ \A w \in Workers \ {Web} : op'[w] = op[w]
    BY <1>0, <2>1 DEF Idle
  <2>3. /\ sweep'.rows[u] = NoKey /\ u \notin poll'.bad
        /\ \A w \in Workers \ {Web} : op'[w].user # u /\ op[w].user # u
    BY <1>0, <2>2 DEF Crossed
  <2>4. InOrder(u)
    BY <1>0, <2>3 DEF Calm
  <2>5. device'[u].status = device[u].status /\ device'[u].uuid = device[u].uuid
    BY <1>0 DEF Activate, Device
  <2>6. InOrder(u)' /\ WorkOK(Web)'
    BY <1>0, <2>2, <2>4, <2>5 DEF InOrder, WorkOK, Working
  <2> QED BY <2>2, <2>3, <2>6 DEF Calm
<1> QED BY <1>1, <1>2

\* The expiry job: a client is gone before its row is marked, whatever becomes of the
\* rest of the batch.
LEMMA CalmSweep ==
  ASSUME BasicInv, [Next]_vars, NEW u \in Users, Calm(u), ~Crossed(u)',
         ExpiryJob \/ ExpireCrash,
         u \in sweep.left \ sweep'.left => Sound!ExpireRevoke(u)
  PROVE  Calm(u)'
<1>0. /\ TypeInv /\ device \in [Users -> Device] /\ xray \in [Users -> Keys \union {NoKey}]
      /\ sweep \in Sweep /\ UNCHANGED <<op, poll>>
      /\ NoneNewer(u)
  <2>1. TypeInv /\ UNCHANGED <<op, poll>> /\ (subs' = subs \/ subs' = WithExpired(sweep.due))
    BY DEF BasicInv, ExpiryJob, ExpireLoad, ExpireRevoke, ExpireCommit, ExpireCrash
  <2>2. NoneNewer(u)
    <3>1. \A t \in DOMAIN subs : /\ WithExpired(sweep.due)[t].user = subs[t].user
                                 /\ WithExpired(sweep.due)[t].product = subs[t].product
      BY <2>1, WithExpiredFacts DEF TypeInv, TablesOK
    <3>2. DOMAIN WithExpired(sweep.due) = DOMAIN subs
      BY DEF WithExpired
    <3> QED BY <2>1, <3>1, <3>2 DEF NoneNewer
  <2> QED BY <2>1, <2>2 DEF TypeInv, TablesOK, UuidsOK, JobsOK
<1>1. CASE ExpireLoad
  <2>1. /\ UNCHANGED <<device, xray>>
        /\ sweep'.rows[u] # NoKey => sweep'.rows[u] = device[u].uuid /\ u \in sweep'.left
    BY <1>1 DEF ExpireLoad
  <2>2. ASSUME sweep'.rows[u] # NoKey PROVE Calm(u)'
    <3>1. (\A w \in Workers : op'[w].user # u) /\ u \notin poll'.bad
      BY <2>2 DEF Crossed
    <3> QED BY <1>0, <2>1, <2>2, <3>1 DEF Calm, InOrder
  <2>3. ASSUME sweep'.rows[u] = NoKey PROVE Calm(u)'
    BY <1>0, <2>1, <2>3, CalmFrame DEF Calm
  <2> QED BY <2>2, <2>3
<1>2. ASSUME NEW v \in Users, ExpireRevoke(v) PROVE Calm(u)'
  <2>1. /\ v \in sweep.left /\ sweep'.rows = sweep.rows /\ sweep'.left = sweep.left \ {v}
        /\ device' = device
    BY <1>0, <1>2 DEF ExpireRevoke, Sweep
  <2>2. CASE v # u
    <3>1. PICK k \in Keys : sweep.rows[v] = k /\ Own(v, k)
      BY <1>0, <2>1 DEF BasicInv, SnapshotInv, Sweep, Rows
    <3>2. xray'[u] = xray[u]
      BY <1>0, <1>2, <2>2, <3>1, ElsewhereRemoved DEF ExpireRevoke
    <3> QED BY <1>0, <2>1, <2>2, <3>2, CalmFrame DEF Calm
  <2>3. CASE v = u
    <3>1. PICK ok \in BOOLEAN : Sound!RemoveUser(sweep.rows[u], ok)
      BY <2>1, <2>3 DEF Sound!ExpireRevoke
    <3>2. sweep.rows[u] # NoKey /\ device[u].uuid = sweep.rows[u] /\ InOrder(u)
          /\ (\A w \in Workers : op[w].user # u) /\ u \notin poll.bad
      BY <2>1, <2>3 DEF BasicInv, SnapshotInv, Calm, Crossed
    <3>3. xray'[u] = NoKey
      BY <1>0, <3>1, <3>2, SoundCalls DEF InOrder
    <3> QED BY <1>0, <2>1, <3>2, <3>3 DEF Calm, InOrder
  <2> QED BY <2>2, <2>3
<1>3. CASE ExpireCommit
  <2>1. sweep'.rows[u] = NoKey /\ xray' = xray /\ sweep.left = {}
    BY <1>3 DEF ExpireCommit, NoSweep, NoRows
  <2>2. CASE device'[u] = device[u]
    BY <1>0, <2>1, <2>2, CalmFrame DEF Calm
  <2>3. CASE device'[u] # device[u]
    <3>1. sweep.rows[u] # NoKey
      BY <1>0, <1>3, <2>3 DEF ExpireCommit
    <3>2. xray[u] = NoKey /\ (\A w \in Workers : op[w].user # u) /\ u \notin poll.bad
      BY <2>1, <3>1 DEF Calm, Crossed
    <3> QED BY <1>0, <2>1, <3>2 DEF Calm, InOrder
  <2> QED BY <2>2, <2>3
<1>4. CASE ExpireCrash
  <2>1. UNCHANGED <<device, xray>> /\ sweep'.rows[u] = NoKey
    BY <1>4 DEF ExpireCrash, NoSweep, NoRows
  <2> QED BY <1>0, <2>1, CalmFrame DEF Calm
<1> QED BY <1>1, <1>2, <1>3, <1>4 DEF ExpiryJob

\* The monitor: the same for those it suspends.
LEMMA CalmPoll ==
  ASSUME BasicInv, [Next]_vars, NEW u \in Users, Calm(u), ~Crossed(u)',
         Monitor \/ PollCrash,
         u \in poll.left \ poll'.left => Sound!SuspendDevice(u)
  PROVE  Calm(u)'
<1>0. /\ TypeInv /\ device \in [Users -> Device] /\ xray \in [Users -> Keys \union {NoKey}]
      /\ poll \in Poll /\ UNCHANGED <<subs, op, sweep>> /\ NoneNewer(u)
      /\ poll.left \subseteq poll.bad /\ \A v \in poll.bad : poll.rows[v] \in Keys
  BY DEF BasicInv, TypeInv, TablesOK, UuidsOK, JobsOK, NoneNewer, SnapshotInv, Monitor, PollLoad,
    SuspendDevice, PollCommit, PollCrash
<1>1. CASE PollLoad
  <2>1. /\ UNCHANGED <<device, xray>>
        /\ u \in poll'.bad => poll'.rows[u] = device[u].uuid /\ u \in poll'.left
    BY <1>1 DEF PollLoad
  <2>2. ASSUME u \in poll'.bad PROVE Calm(u)'
    <3>1. (\A w \in Workers : op'[w].user # u) /\ sweep'.rows[u] = NoKey
      BY <2>2 DEF Crossed
    <3> QED BY <1>0, <2>1, <2>2, <3>1 DEF Calm, InOrder
  <2>3. ASSUME u \notin poll'.bad PROVE Calm(u)'
    BY <1>0, <2>1, <2>3, CalmFrame DEF Calm
  <2> QED BY <2>2, <2>3
<1>2. ASSUME NEW v \in Users, SuspendDevice(v) PROVE Calm(u)'
  <2>1. /\ v \in poll.left /\ poll'.rows = poll.rows /\ poll'.left = poll.left \ {v}
        /\ poll'.bad = poll.bad /\ device' = device
    BY <1>0, <1>2 DEF SuspendDevice, Poll
  <2>2. CASE v # u
    <3>1. PICK k \in Keys : poll.rows[v] = k /\ Own(v, k)
      BY <1>0, <2>1, KeysAssumption DEF BasicInv, SnapshotInv
    <3>2. xray'[u] = xray[u]
      BY <1>0, <1>2, <2>2, <3>1, ElsewhereRemoved DEF SuspendDevice
    <3> QED BY <1>0, <2>1, <2>2, <3>2, CalmFrame DEF Calm
  <2>3. CASE v = u
    <3>1. PICK ok \in BOOLEAN : Sound!RemoveUser(poll.rows[u], ok)
      BY <2>1, <2>3 DEF Sound!SuspendDevice
    <3>2. poll.rows[u] # NoKey /\ device[u].uuid = poll.rows[u] /\ InOrder(u)
          /\ (\A w \in Workers : op[w].user # u) /\ sweep.rows[u] = NoKey
      BY <1>0, <2>1, <2>3, KeysAssumption DEF Calm, Crossed
    <3>3. xray'[u] = NoKey
      BY <1>0, <3>1, <3>2, SoundCalls DEF InOrder
    <3> QED BY <1>0, <2>1, <3>2, <3>3 DEF Calm, InOrder
  <2> QED BY <2>2, <2>3
<1>3. CASE PollCommit
  <2>1. u \notin poll'.bad /\ xray' = xray /\ poll.left = {}
    BY <1>3 DEF PollCommit, NoPoll
  <2>2. CASE device'[u] = device[u]
    BY <1>0, <2>1, <2>2, CalmFrame DEF Calm
  <2>3. CASE device'[u] # device[u]
    <3>1. u \in poll.bad
      BY <1>0, <1>3, <2>3 DEF PollCommit
    <3>2. xray[u] = NoKey /\ (\A w \in Workers : op[w].user # u) /\ sweep.rows[u] = NoKey
      BY <2>1, <3>1 DEF Calm, Crossed
    <3> QED BY <1>0, <2>1, <3>2 DEF Calm, InOrder
  <2> QED BY <2>2, <2>3
<1>4. CASE PollCrash
  <2>1. UNCHANGED <<device, xray>> /\ u \notin poll'.bad
    BY <1>4 DEF PollCrash, NoPoll
  <2> QED BY <1>0, <2>1, CalmFrame DEF Calm
<1> QED BY <1>1, <1>2, <1>3, <1>4 DEF Monitor

\* A process that dies with nothing of the user's in hand, and a payment whose plan
\* has lapsed before the key.
LEMMA CalmEnds ==
  ASSUME BasicInv, NEW u \in Users, NEW w \in Workers, Calm(u), ~Crossed(u)',
         Crash(w) \/ (w = Web /\ NoSubscription),
         op[w].user = u => op[w].step = "start"
  PROVE  Calm(u)'
<1>1. /\ op' = [op EXCEPT ![w] = Idle] /\ op \in [Workers -> Op]
      /\ UNCHANGED <<subs, device, xray, sweep, poll>> /\ NoneNewer(u)
      /\ Idle.user = Nobody /\ u # Nobody
  BY UsersAssumption DEF Crash, NoSubscription, Becomes, BasicInv, TypeInv, WorkersOK, NoneNewer, Idle
<1>2. CASE op[w].user # u
  BY <1>1, <1>2, CalmFrame DEF Calm
<1>3. CASE op[w].user = u
  <2>1. InOrder(u)
    BY <1>3 DEF Calm, Crossed
  <2>2. /\ \A v \in Workers : op'[v].user # u
        /\ sweep'.rows[u] = NoKey /\ u \notin poll'.bad
    BY <1>1, <1>3 DEF Calm, Crossed
  <2> QED BY <1>1, <2>1, <2>2 DEF Calm, InOrder
<1> QED BY <1>2, <1>3

\* Going on is a step.
LEMMA ProceedMoves ==
  ASSUME TypeInv, NEW w \in Workers, Proceed(w)
  PROVE  op'[w] # op[w] /\ op[w].step # "start"
<1>1. op \in [Workers -> Op] /\ op[w] \in Op /\ Idle.step = "idle"
  BY DEF TypeInv, WorkersOK, Idle
<1>2. CASE SyncDeviceToXray(w) \/ UndoProvision(w)
  BY <1>1, <1>2 DEF SyncDeviceToXray, UndoProvision, Becomes
<1>3. CASE RestoreVpnDevice(w)
  <2>1. op[w].step = "restore" /\ op'[w] \in {[op[w] EXCEPT !.step = "restored"], Idle}
    BY <1>1, <1>3 DEF RestoreVpnDevice, Becomes
  <2>2. [op[w] EXCEPT !.step = "restored"].step = "restored"
    BY <1>1 DEF Op
  <2> QED BY <1>1, <2>1, <2>2
<1>6. CASE CreateVpnDevice(w)
  <2>1. PICK k \in Keys \ used :
          /\ op[w].step = "create"
          /\ op'[w] \in {[op[w] EXCEPT !.step = "created", !.uuid = k], Idle}
    BY <1>1, <1>6 DEF CreateVpnDevice, Becomes
  <2>2. [op[w] EXCEPT !.step = "created", !.uuid = k].step = "created"
    BY <1>1 DEF Op
  <2> QED BY <1>1, <2>1, <2>2
<1>4. CASE RestoreCommit(w) \/ CreateCommit(w)
  BY <1>1, <1>4 DEF RestoreCommit, CreateCommit, Becomes, Op
<1>5. CASE RevokeOldKey(w) \/ DeleteOldRow(w)
  BY <1>1, <1>5 DEF RevokeOldKey, DeleteOldRow, Becomes, Op
<1> QED BY <1>2, <1>3, <1>4, <1>5, <1>6 DEF Proceed

\* Whoever is spared by a step is as calm after it as before.
LEMMA CalmStep ==
  ASSUME BasicInv, CalmInv, HistoryNext
  PROVE  CalmInv'
<1> SUFFICES ASSUME NEW u \in Users, u \notin troubled' PROVE Calm(u)'
  BY DEF CalmInv
<1>1. Calm(u) /\ ~Crossed(u)' /\ ~Failed(u) /\ Next /\ TypeInv
  BY HistoryNextIsNext DEF CalmInv, Noted, BasicInv
<1>2. ASSUME NEW v \in Users, NEW p \in Products, Activate(v, p) PROVE Calm(u)'
  BY <1>1, <1>2, CalmActivate
<1>3. ASSUME NEW s \in DOMAIN subs, Lapse(s) PROVE Calm(u)'
  <2>1. NoneNewer(u)
    BY <1>1, <1>3, LapseSubs DEF NoneNewer, TypeInv, TablesOK
  <2> QED BY <1>1, <1>3, <2>1, CalmFrame DEF Lapse, Calm
<1>4. ASSUME NEW w \in Workers, Proceed(w) PROVE Calm(u)'
  <2>1. CASE op[w].user # u
    BY <1>1, <1>4, <2>1, CalmElsewhere
  <2>2. CASE op[w].user = u
    <3>1. Sound!Proceed(w)
      BY <1>1, <1>4, <2>2, ProceedMoves DEF Failed
    <3> QED BY <1>1, <2>2, <3>1, CalmWork
  <2> QED BY <2>1, <2>2
<1>5. ASSUME NEW w \in Workers, Crash(w) PROVE Calm(u)'
  <2>1. op[w].user = u => op[w].step = "start" \/ Sound!Proceed(w)
    <3>1. op'[w] # op[w]
      BY <1>1, <1>5 DEF Crash, Becomes, TypeInv, WorkersOK
    <3> QED BY <1>1, <3>1 DEF Failed
  <2>2. CASE op[w].user = u /\ Sound!Proceed(w)
    BY <1>1, <2>2, CalmWork
  <2> QED BY <1>1, <1>5, <2>1, <2>2, CalmEnds
<1>6. CASE NoSubscription
  BY <1>1, <1>6, CalmEnds DEF NoSubscription, Workers
<1>7. ASSUME NEW v \in Users, RegenerateVpnKey(v) PROVE Calm(u)'
  BY <1>1, <1>7, CalmLoads DEF Workers
<1>8. ASSUME NEW w \in Workers, NEW v \in Users, EnsureVpnKey(w, v) PROVE Calm(u)'
  BY <1>1, <1>8, CalmLoads
<1>9. CASE ExpiryJob \/ ExpireCrash
  BY <1>1, <1>9, CalmSweep DEF Failed
<1>10. CASE Monitor \/ PollCrash
  BY <1>1, <1>10, CalmPoll DEF Failed
<1> QED BY <1>1, <1>2, <1>3, <1>4, <1>5, <1>6, <1>7, <1>8, <1>9, <1>10 DEF Next

\* So they are throughout.
LEMMA CalmKept == HistorySpec => [](BasicInv /\ CalmInv)
<1>1. HistoryInit => BasicInv /\ CalmInv
  <2>1. Init => VpnLineInv
    BY DEF Init, VpnLineInv, Idle, Working
  <2> QED BY <2>1, TypeInvInit, CabinetInit, RetiredInit, CalmInit DEF HistoryInit, BasicInv
<1>2. BasicInv /\ CalmInv /\ [HistoryNext]_historyVars => BasicInv' /\ CalmInv'
  <2> SUFFICES ASSUME BasicInv, CalmInv, [HistoryNext]_historyVars PROVE BasicInv' /\ CalmInv'
    OBVIOUS
  <2>1. [Next]_vars
    BY HistoryNextIsNext DEF historyVars
  <2>2. BasicInv'
    BY <2>1, TypeInvStep, VpnLineStep, CabinetStep, RetiredStep, SnapshotStep, NewestStep DEF BasicInv
  <2>3. CASE UNCHANGED historyVars
    <3>1. \A u \in Users : Calm(u) => Calm(u)'
      BY <2>3 DEF historyVars, vars, Calm, Crossed, WorkOK, InOrder, Newest
    <3> QED BY <2>2, <2>3, <3>1 DEF CalmInv, historyVars
  <2> QED BY <2>2, <2>3, CalmStep
<1> QED BY <1>1, <1>2, PTL DEF HistorySpec

\* For any number of overlapping operations and whatever fails: as long as nothing
\* comes in the way of an operation on a user's own key, no client of that user is
\* left in Xray that is neither the one of the active row nor in an operation's hand.
THEOREM NoOrphanClientCorrect == HistorySpec => []NoOrphanClient
<1>1. CalmInv => NoOrphanClient
  BY DEF CalmInv, Calm, InOrder, NoOrphanClient
<1> QED BY <1>1, CalmKept, PTL

\* What an operation that hands out a key leaves behind.
LEMMA DeliveredRow ==
  ASSUME TypeInv, NEW w \in Workers, NEW u \in Users, op[w].user = u, Calm(u), Sound!Proceed(w),
         op[w].step \in {"sync", "restored", "created"}, op'[w] = Idle
  PROVE  /\ subs' = subs /\ device'[u].status = "active" /\ device'[u].uuid = xray'[u]
         /\ device'[u].sub = op[w].sub
<1>0. /\ op \in [Workers -> Op] /\ device \in [Users -> Device] /\ WorkOK(w)
      /\ Idle.step = "idle" /\ op[w] \in Op
  BY DEF TypeInv, WorkersOK, TablesOK, Calm, Idle
<1>1. CASE Sound!SyncDeviceToXray(w)
  <2>1. op[w].step = "sync" /\ subs' = subs /\ device' = device
    BY <1>1 DEF Sound!SyncDeviceToXray
  <2>2. xray'[u] = op[w].row
    BY <1>1, SoundCalls DEF Sound!SyncDeviceToXray
  <2> QED BY <1>0, <2>1, <2>2 DEF WorkOK
<1>2. CASE Sound!RestoreCommit(w)
  <2>1. op[w].step = "restored" /\ UNCHANGED <<subs, xray>>
        /\ device[u].uuid = op[w].row /\ device[u].sub = op[w].from /\ xray[u] = op[w].row
    BY <1>0, <1>2 DEF Sound!RestoreCommit, WorkOK
  <2>2. ~Becomes(w, [op[w] EXCEPT !.step = "undo", !.uuid = op[w].row])
    BY <1>0 DEF Becomes, Op
  <2>3. device' = [device EXCEPT ![u] = Restored(@, op[w])]
    BY <1>2, <2>2 DEF Sound!RestoreCommit, Sound!Becomes, Becomes, Sound!Restored, Restored
  <2> QED BY <1>0, <2>1, <2>3 DEF Restored, Device
<1>3. CASE Sound!CreateCommit(w)
  <2>1. op[w].step = "created" /\ UNCHANGED <<subs, xray>> /\ xray[u] = op[w].uuid
    BY <1>0, <1>3 DEF Sound!CreateCommit, WorkOK
  <2>2. ~Becomes(w, [op[w] EXCEPT !.step = "undo", !.held = FALSE])
    BY <1>0 DEF Becomes, Op
  <2>3. device' = [device EXCEPT ![u] = [uuid |-> op[w].uuid, sub |-> op[w].sub,
                                         status |-> "active"]]
    BY <1>3, <2>2 DEF Sound!CreateCommit, Sound!Becomes, Becomes
  <2> QED BY <1>0, <2>1, <2>3
<1> QED BY <1>1, <1>2, <1>3 DEF Sound!Proceed, Sound!RestoreVpnDevice, Sound!CreateVpnDevice,
          Sound!UndoProvision, Sound!RevokeOldKey, Sound!DeleteOldRow

\* And an operation that hands such a user a key hands over one that works, on
\* the newest VPN subscription.
THEOREM DeliveredKeyCorrect == HistorySpec => DeliveredKeyWorks
<1> DEFINE Delivered(w) ==
             LET u == op[w].user IN
             /\ op[w].step \in {"sync", "restored", "created"}
             /\ op'[w] = Idle
             /\ u \notin troubled'
             => /\ device'[u].status = "active"
                /\ xray'[u] = device'[u].uuid
                /\ \A t \in DOMAIN subs' :
                     subs'[t].user = u /\ subs'[t].product \in VpnLine => t <= device'[u].sub
<1>1. ASSUME BasicInv, CalmInv, HistoryNext, NEW w \in Workers PROVE Delivered(w)
  <2> SUFFICES ASSUME op[w].step \in {"sync", "restored", "created"}, op'[w] = Idle,
                      op[w].user \notin troubled'
               PROVE  LET u == op[w].user IN
                      /\ device'[u].status = "active"
                      /\ xray'[u] = device'[u].uuid
                      /\ \A t \in DOMAIN subs' :
                           subs'[t].user = u /\ subs'[t].product \in VpnLine => t <= device'[u].sub
    OBVIOUS
  <2>1. PICK u \in Users : op[w].user = u
    BY <1>1, OpFields DEF BasicInv, OpShape
  <2>2. Calm(u) /\ ~Failed(u) /\ TypeInv /\ op'[w] # op[w]
    BY <1>1, <2>1, HistoryNextIsNext DEF CalmInv, Noted, BasicInv, Idle
  <2>3. Sound!Proceed(w)
    BY <2>1, <2>2 DEF Failed
  <2>4. /\ subs' = subs /\ device'[u].status = "active" /\ device'[u].uuid = xray'[u]
        /\ device'[u].sub = op[w].sub
    BY <2>1, <2>2, <2>3, DeliveredRow
  <2>5. Newest(u, op[w].sub)
    BY <2>1, <2>2 DEF Calm, WorkOK, Working
  <2> QED BY <2>1, <2>4, <2>5 DEF Newest
<1>2. BasicInv /\ CalmInv /\ [HistoryNext]_historyVars
        => [\A w \in Workers : Delivered(w)]_historyVars
  BY <1>1
<1> QED BY <1>2, CalmKept, PTL DEF HistorySpec, DeliveredKeyWorks
=============================================================================
