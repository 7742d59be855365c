------------------------------- MODULE VpnKeys -------------------------------
(***************************************************************************)
(* The life of a VPN key: BillingClient (bot/billing.py) activates paid    *)
(* plans, hands out one VLESS key per user and revokes it when the         *)
(* subscription is over; the device monitor suspends abused keys; the      *)
(* xray-agent of the VPN node holds the clients that can really connect.   *)
(*                                                                         *)
(* Every operation reads the database, calls the agent over HTTP and then  *)
(* commits.  Each of those is a step of its own, so bot threads, the web   *)
(* process, the expiry job and the monitor interleave between them.        *)
(*                                                                         *)
(* xray_email is unique in the database and is derived from the user with  *)
(* one fixed suffix, so a user has at most one device row and at most one  *)
(* client of the agent: both are functions of the user here.               *)
(***************************************************************************)
EXTENDS Integers, Sequences, FiniteSets

CONSTANTS
  WebUsers,     \* accounts registered on the site (no telegram_id)
  BotUsers,     \* accounts created by the Telegram bot
  Nobody,       \* the user of an idle worker
  Bots,         \* threads of the bot process (asyncio.to_thread)
  Web,          \* the web process: its handlers run one at a time
  Keys,         \* the uuids uuid4 may return
  NoKey,        \* no uuid
  Products,     \* product types on sale
  MaxSubs,      \* bound: subscriptions ever activated
  MaxInFlight,  \* bound: operations in progress at the same time
  Faults        \* what may fail: "agent", "revoke" (calls of the expiry job), "commit", "crash"

Users   == WebUsers \union BotUsers
Workers == Bots \union {Web}
VpnLine == {"vpn", "bundle"}
AiLine  == {"ai", "bundle"}

ASSUME UsersAssumption ==
  /\ WebUsers \cap BotUsers = {}
  /\ Nobody \notin Users
  /\ Web \notin Bots
ASSUME KeysAssumption    == NoKey \notin Keys
ASSUME ProductAssumption == Products \subseteq {"vpn", "ai", "bundle"}
ASSUME BoundAssumption   == MaxSubs \in Nat /\ MaxInFlight \in Nat
ASSUME FaultAssumption   == Faults \subseteq {"agent", "revoke", "commit", "crash"}

VARIABLES
  subs,     \* table subscriptions, in order of id
  device,   \* table devices: the row of each user
  xray,     \* the agent's clients: the uuid registered under the user's email
  used,     \* uuids generated so far
  retired,  \* history: uuids whose row a completed regenerate replaced
  op,       \* what each worker is doing
  sweep,    \* expire_due_subscriptions in progress
  poll      \* DeviceMonitorService.poll_once in progress

vars == <<subs, device, xray, used, retired, op, sweep, poll>>

Subscription == [user: Users, product: Products, status: {"active", "expired"},
                 over: BOOLEAN]                   \* over: expires_at <= now
Device == [uuid: Keys \union {NoKey}, sub: Nat,
           status: {"none", "active", "suspended", "expired"}]
Step == {"idle", "start", "sync", "restore", "restored", "create", "created",
         "revoke", "delete", "undo"}
Op == [step: Step, user: Users \union {Nobody}, sub: Nat,
       row: Keys \union {NoKey},                  \* uuid of the row it loaded
       from: Nat,                                 \* and that row's subscription
       uuid: Keys \union {NoKey},                 \* uuid it generated
       held: BOOLEAN]                             \* it has deleted, not committed
Rows == [Users -> Keys \union {NoKey}]
Sweep == [busy: BOOLEAN, due: SUBSET Nat, rows: Rows, left: SUBSET Users]
Poll  == [busy: BOOLEAN, bad: SUBSET Users, rows: Rows, left: SUBSET Users]

NoDevice == [uuid |-> NoKey, sub |-> 0, status |-> "none"]
Idle     == [step |-> "idle", user |-> Nobody, sub |-> 0, row |-> NoKey,
             from |-> 0, uuid |-> NoKey, held |-> FALSE]
NoRows   == [u \in Users |-> NoKey]
NoSweep  == [busy |-> FALSE, due |-> {}, rows |-> NoRows, left |-> {}]
NoPoll   == [busy |-> FALSE, bad |-> {}, rows |-> NoRows, left |-> {}]

Init ==
  /\ subs = << >>
  /\ device = [u \in Users |-> NoDevice]
  /\ xray = [u \in Users |-> NoKey]
  /\ used = {}
  /\ retired = {}
  /\ op = [w \in Workers |-> Idle]
  /\ sweep = NoSweep
  /\ poll = NoPoll

-----------------------------------------------------------------------------
(* Queries and helpers.                                                    *)

\* Mutant: an AI plan leaves a running bundle alone.
ConflictingForgetsBundle(p) == CASE p = "bundle" -> {"vpn", "ai", "bundle"}
                                 [] p = "vpn"    -> {"vpn", "bundle"}
                                 [] OTHER        -> {"ai"}

\* _conflicting_product_types
Conflicting(p) == CASE p = "bundle" -> {"vpn", "ai", "bundle"}
                    [] p = "vpn"    -> {"vpn", "bundle"}
                    [] OTHER        -> {"ai", "bundle"}

\* ids of the subscriptions of u that buying p replaces (old_sub_ids)
Replaced(u, p) ==
  {s \in DOMAIN subs : /\ subs[s].user = u
                       /\ subs[s].status = "active"
                       /\ subs[s].product \in Conflicting(p)}

\* table subscriptions with these rows closed
WithExpired(ids) ==
  [s \in DOMAIN subs |->
     IF s \in ids THEN [subs[s] EXCEPT !.status = "expired"] ELSE subs[s]]

\* _get_active_subscription(line="vpn")
Current(u) ==
  {s \in DOMAIN subs : /\ subs[s].user = u
                       /\ subs[s].status = "active"
                       /\ subs[s].product \in VpnLine
                       /\ ~subs[s].over}

InFlight == Cardinality({w \in Workers : op[w].step # "idle"})
            + (IF sweep.busy THEN 1 ELSE 0) + (IF poll.busy THEN 1 ELSE 0)

MayStart == InFlight < MaxInFlight

\* Bound: a creation starts only while there is a uuid left for it.
UuidLeft == Cardinality({w \in Workers : op[w].step \in {"revoke", "delete", "create"}})
            < Cardinality(Keys \ used)

\* A VPN plan takes over the device of the subscription it replaces.
TakesOverDevice(u, p) == p \in VpnLine /\ device[u].sub \in Replaced(u, p)

NewSubscription(u, p) ==
  [user |-> u, product |-> p, status |-> "active", over |-> FALSE]

\* Mutant: the insert behaves like an upsert.
MayInsertAlways(w, u) == TRUE

\* UNIQUE(xray_email): an insert needs that the user has no row, or that this
\* transaction has deleted it.
MayInsert(w, u) == device[u] = NoDevice \/ op[w].held

\* Mutant: the button is offered to the users of the bot as well.
CabinetForAll(u) == TRUE

\* Only the cabinet of the site calls regenerate_vpn_key_for_user.
HasCabinet(u) == u \in WebUsers

\* The row of u is locked: another transaction has deleted it and not ended.
LockedFor(w, u) == \E v \in Workers \ {w} : op[v].held /\ op[v].user = u
Locked(u)       == \E v \in Workers : op[v].held /\ op[v].user = u

\* The agent's answer to POST /add_user: the client of that email gets uuid k.
\* A failed request may have been carried out before its answer was lost.
AddUser(u, k, ok) ==
  \/ ok /\ xray' = [xray EXCEPT ![u] = k]
  \/ ~ok /\ "agent" \in Faults /\ xray' \in {xray, [xray EXCEPT ![u] = k]}

\* The agent's answer to POST /remove_user: an unknown uuid is an error (404).
Without(k)   == [u \in Users |-> IF xray[u] = k THEN NoKey ELSE xray[u]]
Registered(k) == \E u \in Users : xray[u] = k
RemoveUser(k, ok) ==
  \/ ok /\ Registered(k) /\ xray' = Without(k)
  \/ ~ok /\ ~Registered(k) /\ UNCHANGED xray
  \/ ~ok /\ "agent" \in Faults /\ xray' \in {xray, Without(k)}

Becomes(w, next) == op' = [op EXCEPT ![w] = next]

-----------------------------------------------------------------------------
(* Payments and time.                                                      *)

\* fulfill_payment, in the web process: _activate_plan_for_user and the
\* payment's status in one transaction, then ensure_vpn_key for a VPN plan.
\* A payment created long ago is fulfilled whatever the user has bought since.
Activate(u, p) ==
  /\ op[Web] = Idle
  /\ MayStart
  /\ Len(subs) < MaxSubs
  /\ TakesOverDevice(u, p) => ~Locked(u)
  /\ subs' = Append(WithExpired(Replaced(u, p)), NewSubscription(u, p))
  /\ device' = IF TakesOverDevice(u, p)
                  THEN [device EXCEPT ![u].sub = Len(subs) + 1] ELSE device
  /\ IF p \in VpnLine
       THEN Becomes(Web, [Idle EXCEPT !.step = "start", !.user = u])
       ELSE UNCHANGED op
  /\ UNCHANGED <<xray, used, retired, sweep, poll>>

\* The clock passes expires_at of subscription s.
Lapse(s) ==
  /\ subs[s].status = "active"
  /\ ~subs[s].over
  /\ subs' = [subs EXCEPT ![s].over = TRUE]
  /\ UNCHANGED <<device, xray, used, retired, op, sweep, poll>>

-----------------------------------------------------------------------------
(* ensure_vpn_key.                                                         *)

\* Whether the query for the active row of s finds one after
\* _consolidate_vpn_devices_for_user.  That has one active row at most to deal
\* with and re-attaches it to s in memory only: sessions do not autoflush, so
\* the query sees the subscription that is stored.
FoundConsolidated(u, s) == device[u].status = "active" /\ device[u].sub = s

\* What ensure_vpn_key does for subscription s; an active row of another
\* subscription leads to "create".
EnsureStep(u, s) ==
  CASE FoundConsolidated(u, s)      -> "sync"
    [] device[u].status = "expired" -> "restore"
    [] OTHER                        -> "create"

EnsureVpnKey(w, u) ==
  /\ \/ w \in Bots /\ u \in BotUsers /\ op[w] = Idle /\ MayStart
     \/ w = Web /\ op[w].step = "start" /\ op[w].user = u
  /\ \E s \in Current(u) :
       /\ EnsureStep(u, s) = "create" => UuidLeft
       /\ Becomes(w, [Idle EXCEPT !.step = EnsureStep(u, s), !.user = u, !.sub = s,
                                  !.row = device[u].uuid,
                                  !.from = device[u].sub])
  /\ UNCHANGED <<subs, device, xray, used, retired, sweep, poll>>

\* NoSubscriptionError after a payment: the plan lapsed before the key.
NoSubscription ==
  /\ op[Web].step = "start"
  /\ Current(op[Web].user) = {}
  /\ Becomes(Web, Idle)
  /\ UNCHANGED <<subs, device, xray, used, retired, sweep, poll>>

\* Mutant: an existing key is shown without the upsert.
SyncSkipped(w) ==
  /\ op[w].step = "sync"
  /\ Becomes(w, Idle)
  /\ UNCHANGED <<subs, device, xray, used, retired, sweep, poll>>

\* _sync_device_to_xray; the session is closed without a commit.
SyncDeviceToXray(w) ==
  /\ op[w].step = "sync"
  /\ \E ok \in BOOLEAN : AddUser(op[w].user, op[w].row, ok)
  /\ Becomes(w, Idle)
  /\ UNCHANGED <<subs, device, used, retired, sweep, poll>>

\* Mutant: the restored row is stored without telling the agent.
RestoreSkipsAgent(w) ==
  /\ op[w].step = "restore"
  /\ Becomes(w, [op[w] EXCEPT !.step = "restored"])
  /\ UNCHANGED <<subs, device, xray, used, retired, sweep, poll>>

\* _restore_vpn_device: provision the old uuid again ...
RestoreVpnDevice(w) ==
  /\ op[w].step = "restore"
  /\ \E ok \in BOOLEAN :
       /\ AddUser(op[w].user, op[w].row, ok)
       /\ Becomes(w, IF ok THEN [op[w] EXCEPT !.step = "restored"] ELSE Idle)
  /\ UNCHANGED <<subs, device, used, retired, sweep, poll>>

\* The ORM writes subscription_id only if it differs from the loaded one.
Restored(d, o) ==
  [d EXCEPT !.status = "active",
            !.sub = IF o.from # o.sub THEN o.sub ELSE @]

\* ... then commit; a row deleted meanwhile, or a database error, undoes it.
RestoreCommit(w) ==
  LET u == op[w].user IN
  /\ op[w].step = "restored"
  /\ ~LockedFor(w, u)
  /\ \/ /\ device[u].uuid = op[w].row
        /\ device' = [device EXCEPT ![u] = Restored(@, op[w])]
        /\ Becomes(w, Idle)
     \/ /\ device[u].uuid # op[w].row \/ "commit" \in Faults
        /\ Becomes(w, [op[w] EXCEPT !.step = "undo", !.uuid = op[w].row])
        /\ UNCHANGED device
  /\ UNCHANGED <<subs, xray, used, retired, sweep, poll>>

\* Mutant: whoever has a row gets its uuid once more.
CreateReusesUuid(w) ==
  /\ op[w].step = "create"
  /\ \E k \in (IF op[w].row = NoKey THEN Keys \ used ELSE {op[w].row}), ok \in BOOLEAN :
       /\ AddUser(op[w].user, k, ok)
       /\ used' = used \union {k}
       /\ Becomes(w, IF ok THEN [op[w] EXCEPT !.step = "created", !.uuid = k]
                           ELSE Idle)
  /\ UNCHANGED <<subs, device, retired, sweep, poll>>

\* _create_vpn_device: a fresh uuid is provisioned before anything is stored;
\* an error here closes the session, which also gives a deleted row back.  The
\* connection URI is built between the call and the try: a node without an
\* address raises there, and leaves what a lost answer does.
CreateVpnDevice(w) ==
  /\ op[w].step = "create"
  /\ \E k \in Keys \ used, ok \in BOOLEAN :
       /\ AddUser(op[w].user, k, ok)
       /\ used' = used \union {k}
       /\ Becomes(w, IF ok THEN [op[w] EXCEPT !.step = "created", !.uuid = k]
                           ELSE Idle)
  /\ UNCHANGED <<subs, device, retired, sweep, poll>>

\* The commit of the insert; if it fails, the session is rolled back first.
CreateCommit(w) ==
  LET u == op[w].user IN
  /\ op[w].step = "created"
  /\ ~LockedFor(w, u)
  /\ \/ /\ MayInsert(w, u)
        /\ device' = [device EXCEPT ![u] = [uuid |-> op[w].uuid,
                                            sub |-> op[w].sub,
                                            status |-> "active"]]
        /\ retired' = IF op[w].held THEN retired \union {op[w].row} ELSE retired
        /\ Becomes(w, Idle)
     \/ /\ ~MayInsert(w, u) \/ "commit" \in Faults
        /\ Becomes(w, [op[w] EXCEPT !.step = "undo", !.held = FALSE])
        /\ UNCHANGED <<device, retired>>
  /\ UNCHANGED <<subs, xray, used, sweep, poll>>

\* Mutant: a failed commit leaves the client in Xray.
UndoForgotten(w) ==
  /\ op[w].step = "undo"
  /\ Becomes(w, Idle)
  /\ UNCHANGED <<subs, device, xray, used, retired, sweep, poll>>

\* rollback_key, or the revoke after a failed restore: errors are swallowed.
UndoProvision(w) ==
  /\ op[w].step = "undo"
  /\ \E ok \in BOOLEAN : RemoveUser(op[w].uuid, ok)
  /\ Becomes(w, Idle)
  /\ UNCHANGED <<subs, device, used, retired, sweep, poll>>

-----------------------------------------------------------------------------
(* regenerate_vpn_key_for_user.                                            *)

RegenerateVpnKey(u) ==
  /\ HasCabinet(u)
  /\ op[Web] = Idle
  /\ MayStart
  /\ UuidLeft
  /\ \E s \in Current(u) :
       LET existing == device[u].status = "active" /\ device[u].sub = s IN
       Becomes(Web, [Idle EXCEPT !.step = IF existing THEN "revoke" ELSE "create",
                                 !.user = u, !.sub = s,
                                 !.row = device[u].uuid, !.from = device[u].sub])
  /\ UNCHANGED <<subs, device, xray, used, retired, sweep, poll>>

RevokeOldKey(w) ==
  /\ op[w].step = "revoke"
  /\ \E ok \in BOOLEAN :
       /\ RemoveUser(op[w].row, ok)
       /\ Becomes(w, IF ok THEN [op[w] EXCEPT !.step = "delete"] ELSE Idle)
  /\ UNCHANGED <<subs, device, used, retired, sweep, poll>>

\* session.delete + flush: the row stays visible to others until the commit,
\* but whoever wants to change it waits.
DeleteOldRow(w) ==
  LET u == op[w].user IN
  /\ op[w].step = "delete"
  /\ ~LockedFor(w, u)
  /\ Becomes(w, IF device[u].uuid = op[w].row
                  THEN [op[w] EXCEPT !.step = "create", !.held = TRUE]
                  ELSE Idle)
  /\ UNCHANGED <<subs, device, xray, used, retired, sweep, poll>>

\* The process dies: its transaction is rolled back by the database, what the
\* agent has done stays done.
Crash(w) ==
  /\ "crash" \in Faults
  /\ op[w] # Idle
  /\ Becomes(w, Idle)
  /\ UNCHANGED <<subs, device, xray, used, retired, sweep, poll>>

-----------------------------------------------------------------------------
(* expire_due_subscriptions, in a thread of the bot every six hours.       *)

\* Mutant: subscriptions without a device to revoke are not loaded.
DueWithDevice == {s \in DOMAIN subs :
                    /\ subs[s].status = "active" /\ subs[s].over
                    /\ \E u \in Users : device[u].sub = s}

\* The subscriptions the job has to close.
Due == {s \in DOMAIN subs : subs[s].status = "active" /\ subs[s].over}

ExpireLoad ==
  LET rows == [u \in Users |->
                 IF /\ device[u].status = "active"
                    /\ device[u].sub \in Due
                    /\ subs[device[u].sub].product \in VpnLine
                 THEN device[u].uuid ELSE NoKey]
  IN
  /\ ~sweep.busy
  /\ MayStart
  /\ Due # {}
  /\ sweep' = [busy |-> TRUE, due |-> Due, rows |-> rows,
               left |-> {u \in Users : rows[u] # NoKey}]
  /\ UNCHANGED <<subs, device, xray, used, retired, op, poll>>

\* Mutant: the job marks the device but does not revoke its key.
ExpireSkipsRevoke(u) ==
  /\ u \in sweep.left
  /\ sweep' = [sweep EXCEPT !.left = @ \ {u}]
  /\ UNCHANGED <<subs, device, xray, used, retired, op, poll>>

\* revoke_key for one device; an error is logged and the loop goes on.
ExpireRevoke(u) ==
  /\ u \in sweep.left
  /\ \/ \E ok \in BOOLEAN : RemoveUser(sweep.rows[u], ok)
     \/ "revoke" \in Faults /\ UNCHANGED xray
  /\ sweep' = [sweep EXCEPT !.left = @ \ {u}]
  /\ UNCHANGED <<subs, device, used, retired, op, poll>>

\* One commit for the whole batch; a row deleted meanwhile makes it fail.
ExpireCommit ==
  LET touched == {u \in Users : sweep.rows[u] # NoKey}
      intact  == \A u \in touched : device[u].uuid = sweep.rows[u]
  IN
  /\ sweep.busy
  /\ sweep.left = {}
  /\ \A u \in touched : ~Locked(u)
  /\ \/ /\ intact
        /\ subs' = WithExpired(sweep.due)
        /\ device' = [u \in Users |->
                        IF u \in touched
                          THEN [device[u] EXCEPT !.status = "expired"]
                          ELSE device[u]]
     \/ /\ ~intact \/ "commit" \in Faults
        /\ UNCHANGED <<subs, device>>
  /\ sweep' = NoSweep
  /\ UNCHANGED <<xray, used, retired, op, poll>>

ExpireCrash ==
  /\ "crash" \in Faults
  /\ sweep.busy
  /\ sweep' = NoSweep
  /\ UNCHANGED <<subs, device, xray, used, retired, op, poll>>

-----------------------------------------------------------------------------
(* DeviceMonitorService.poll_once, in the monitor process.                 *)

\* The active devices are loaded; any set of them may be found in violation
\* (TrafficMeter and the online-IP rules decide which).
PollLoad ==
  LET active == {u \in Users : device[u].status = "active"} IN
  /\ ~poll.busy
  /\ MayStart
  /\ \E bad \in SUBSET active \ {{}} :
       poll' = [busy |-> TRUE, bad |-> bad, left |-> bad,
                rows |-> [u \in Users |->
                            IF u \in active THEN device[u].uuid ELSE NoKey]]
  /\ UNCHANGED <<subs, device, xray, used, retired, op, sweep>>

\* _suspend_device: an error of remove_user is logged and ignored.
SuspendDevice(u) ==
  /\ u \in poll.left
  /\ \E ok \in BOOLEAN : RemoveUser(poll.rows[u], ok)
  /\ poll' = [poll EXCEPT !.left = @ \ {u}]
  /\ UNCHANGED <<subs, device, used, retired, op, sweep>>

\* One commit for the whole poll.  It also writes last_ip of devices that
\* stay, so a row deleted meanwhile can spoil it even for the suspended ones.
PollCommit ==
  LET gone == {u \in Users : poll.rows[u] # NoKey /\ device[u].uuid # poll.rows[u]}
  IN
  /\ poll.busy
  /\ poll.left = {}
  /\ \A u \in poll.bad : ~Locked(u)
  /\ \/ /\ poll.bad \cap gone = {}
        /\ device' = [u \in Users |->
                        IF u \in poll.bad
                          THEN [device[u] EXCEPT !.status = "suspended"]
                          ELSE device[u]]
     \/ /\ gone # {} \/ "commit" \in Faults
        /\ UNCHANGED device
  /\ poll' = NoPoll
  /\ UNCHANGED <<subs, xray, used, retired, op, sweep>>

PollCrash ==
  /\ "crash" \in Faults
  /\ poll.busy
  /\ poll' = NoPoll
  /\ UNCHANGED <<subs, device, xray, used, retired, op, sweep>>

-----------------------------------------------------------------------------
\* An operation under way goes on to its end.
Proceed(w) ==
  \/ SyncDeviceToXray(w)
  \/ RestoreVpnDevice(w)
  \/ RestoreCommit(w)
  \/ CreateVpnDevice(w)
  \/ CreateCommit(w)
  \/ UndoProvision(w)
  \/ RevokeOldKey(w)
  \/ DeleteOldRow(w)

ExpiryJob == ExpireLoad \/ (\E u \in Users : ExpireRevoke(u)) \/ ExpireCommit
Monitor   == PollLoad \/ (\E u \in Users : SuspendDevice(u)) \/ PollCommit

Next ==
  \/ \E u \in Users, p \in Products : Activate(u, p)
  \/ \E s \in DOMAIN subs : Lapse(s)
  \/ NoSubscription
  \/ \E u \in Users : RegenerateVpnKey(u)
  \/ \E w \in Workers, u \in Users : EnsureVpnKey(w, u)
  \/ \E w \in Workers : Proceed(w) \/ Crash(w)
  \/ ExpiryJob
  \/ ExpireCrash
  \/ Monitor
  \/ PollCrash

Spec == Init /\ [][Next]_vars

\* What the processes guarantee: every agent call ends (60 s timeout) and its
\* handler then runs on; the expiry loop survives any exception and comes back.
Fairness ==
  /\ \A w \in Workers : WF_vars(Proceed(w))
  /\ WF_vars(NoSubscription)
  /\ WF_vars(\E u \in Users : EnsureVpnKey(Web, u))
  /\ WF_vars(ExpiryJob)

\* The users of the bot keep pressing the "connect" button.
Asking == \A w \in Bots, u \in BotUsers : SF_vars(EnsureVpnKey(w, u))

-----------------------------------------------------------------------------
(* Properties.                                                             *)

\* Every variable stays within its type.
TypeOK ==
  /\ subs \in Seq(Subscription)
  /\ device \in [Users -> Device]
  /\ xray \in [Users -> Keys \union {NoKey}]
  /\ used \subseteq Keys
  /\ retired \subseteq Keys
  /\ op \in [Workers -> Op]
  /\ sweep \in Sweep
  /\ poll \in Poll

Line(p) == IF p = "bundle" THEN {"vpn", "ai"} ELSE {p}

\* However purchases, the expiry job and its stale snapshot interleave, two
\* active subscriptions of one user never cover the same line: a bundle
\* replaces both single products and each of them replaces a bundle
\* (_conflicting_product_types, _expire_conflicting_subscriptions).
OneActivePerLine ==
  \A s, t \in DOMAIN subs :
    /\ s # t
    /\ subs[s].user = subs[t].user
    /\ subs[s].status = "active"
    /\ subs[t].status = "active"
    => Line(subs[s].product) \cap Line(subs[t].product) = {}

\* A device row always hangs off a subscription of its own user that includes
\* VPN, whatever mix of activation, restore and creation moved it there: an
\* AI purchase never takes a key over, and a commit never uses the
\* subscription of another user.
DeviceOnVpnLine ==
  \A u \in Users : device[u] # NoDevice =>
    /\ device[u].sub \in DOMAIN subs
    /\ subs[device[u].sub].user = u
    /\ subs[device[u].sub].product \in VpnLine

\* "New key: the old one stops working" (regenerate_vpn_key_for_user): once
\* the replacement is committed no operation, retry, job or crash ever puts
\* the old uuid back into Xray or into the database.
RetiredKeysStayDead ==
  \A u \in Users : xray[u] \notin retired /\ device[u].uuid \notin retired

\* Rows and clients in the words of KeyBook.
Book == INSTANCE KeyBook WITH
  key <- [u \in Users |-> device[u].uuid], answers <- xray, drawn <- used, dead <- retired

\* However operations and jobs overlap and whatever fails or dies, a uuid is one
\* user's only, is drawn before it is handed out, is switched on for the user
\* whose row holds it and for nobody else, and is given up for another only at
\* a site user's request, when it has stopped answering, and then for ever.
ImplementsKeyBook == Book!Spec

\* The uuid in a user's connection string changes only when the site user
\* asked for a new key; renewals, expiry, suspension and restoration keep it.
SameKeyUnlessAsked ==
  [][\A u \in Users : device[u] # NoDevice =>
       \/ device'[u].uuid = device[u].uuid
       \/ u \in WebUsers /\ op[Web].user = u /\ op[Web].held]_vars

Entitled(u) == Current(u) # {}

\* A uuid that answers in Xray is either the one in the user's row or one
\* that an operation in progress is about to store or to take back, whatever
\* the interleaving and whichever commits fail: the compensation after
\* add_user leaves no key behind that the database never heard of.
NoForeignKey ==
  \A u \in Users : xray[u] # NoKey =>
    \/ xray[u] = device[u].uuid
    \/ \E w \in Workers : /\ op[w].user = u
                          /\ op[w].step \in {"created", "undo"}
                          /\ op[w].uuid = xray[u]

\* An active device whose subscription is no longer active: the expiry job
\* will never look at it again and ensure_vpn_key cannot replace it.
Stranded(u) == /\ device[u].status = "active"
               /\ subs[device[u].sub].status = "expired"

\* A subscription whose time is over is eventually marked expired, although the
\* agent may refuse to remove its client, and presses of the button restore and
\* renew the same row while the job is at it.
DueIsExpired ==
  \A s \in 1..MaxSubs :
    (s \in DOMAIN subs /\ subs[s].over)
      ~> (s \in DOMAIN subs /\ subs[s].status = "expired")

\* A bot user with a running VPN subscription who keeps asking eventually has
\* a key that works, unless the subscription ends, the monitor suspends the
\* device or the row is stranded: two presses that create at the same time,
\* and presses that race a renewal or the expiry job, heal at a later press.
AskedKeyIsServed ==
  \A u \in BotUsers :
    Entitled(u) ~> \/ ~Entitled(u)
                   \/ device[u].status = "suspended"
                   \/ Stranded(u)
                   \/ device[u].status = "active" /\ xray[u] = device[u].uuid

-----------------------------------------------------------------------------
(* What documents say of the program, refuted by a run.                    *)

\* docs/device-enforcement.md, "After suspend": the user adds the device again
\* and gets a new uuid, so the creation is not undone because of the old row.
SuspendedUserGetsNewKey ==
  \A w \in Workers : op[w].step = "undo" => device[op[w].user].status # "suspended"

=============================================================================
