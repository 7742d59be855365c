------------------------------ MODULE NodePicker ------------------------------
(***************************************************************************)
(* Which VPN node a key is put on (netagent_common/vpn_nodes.py) and how   *)
(* it gets there (bot/billing.py, xray_agent/config_service.py).  A new    *)
(* key goes to the node with the fewest active rows that has room; the row *)
(* is inserted only after the agent of that node has added the client, so  *)
(* operations of other users get in between.  A row keeps its node for     *)
(* life.  Two limits are at work: max_users in the database, on rows, and  *)
(* xray_max_users of the agent, on clients.                                *)
(*                                                                         *)
(* The nodes are inbounds of one entry server, as the migrations set them  *)
(* up: their agents rewrite one configuration file, under a lock.  How an  *)
(* agent tests, loads and rolls back is in XrayAgent; here a request is    *)
(* carried out, refused, or fails.  Suspensions, new keys at a user's wish *)
(* (which stay on their node) and operations of one user that overlap are  *)
(* in VpnKeys.  When a subscription runs is left open: users ask for a key *)
(* while it does, and the expiry job comes when it is over.                *)
(***************************************************************************)
EXTENDS Integers, FiniteSets

CONSTANTS
  Nodes,        \* the active nodes, numbered in the order (sort_order, id)
  MaxUsers,     \* max_users of each node
  AgentMax,     \* xray_max_users of each node's agent
  Customers,    \* users, who have one key each; also their emails in Xray
  Former,       \* emails of customers the database has forgotten
  Kept,         \* emails of the administrator (AGENT_RESERVED_EMAILS)
  Nobody,       \* the holder of a lock that is free
  MaxInFlight,  \* bound: operations in progress at the same time
  Faults        \* what may fail: "commit", "agent"

Emails == Customers \union Former \union Kept   \* a client is known by its email
Config == [Nodes -> SUBSET Emails]

ASSUME NodesAssumption ==
  /\ Nodes \subseteq Nat \ {0} /\ Nodes # {} /\ IsFiniteSet(Nodes)
  /\ MaxUsers \in [Nodes -> Nat] /\ AgentMax \in [Nodes -> Nat]
ASSUME EmailsAssumption ==
  /\ Customers \cap Kept = {} /\ Former \cap (Customers \union Kept) = {}
  /\ Nobody \notin Customers /\ IsFiniteSet(Customers)
ASSUME LimitsAssumption ==   \* both are 50 unless they are set
  \A n \in Nodes : MaxUsers[n] <= AgentMax[n]
ASSUME BoundAssumption  == MaxInFlight \in Nat
ASSUME FaultsAssumption == Faults \subseteq {"commit", "agent"}

VARIABLES
  file,     \* the clients of each inbound in the configuration file
  lock,     \* whose request holds the lock file
  draft,    \* the configuration its agent is about to write
  row,      \* table devices
  op,       \* the operation in progress for each user
  excused   \* history: users whose row may be one too many on its node

vars == <<file, lock, draft, row, op, excused>>

NoRow == [status |-> "none", node |-> 0]
Row   == [status: {"none", "active", "expired"}, node: Nodes \union {0}]

Adding   == {"sync", "restore", "create"}
Removing == {"expire", "undo"}
Idle == [task |-> "none", step |-> "idle", node |-> 0]
Op   == [task: Adding \union Removing \union {"none"}, step: {"idle", "call", "write", "commit"},
         node: Nodes \union {0}]

Empty == [n \in Nodes |-> {}]

\* The file before any of the present rows: the administrator's clients, and
\* clients of a database that has been wiped.
Init ==
  /\ \E place \in [Former \union Kept -> Nodes] :
       file = [n \in Nodes |-> {e \in Former \union Kept : place[e] = n}]
  /\ lock = Nobody
  /\ draft = Empty
  /\ row = [u \in Customers |-> NoRow]
  /\ op = [u \in Customers |-> Idle]
  /\ excused = {}

-----------------------------------------------------------------------------
(* Picking a node.                                                         *)

\* The users with an active row on n, whose number the query counts.
ActiveOn(n) == {u \in Customers : row[u].status = "active" /\ row[u].node = n}
Load(n)     == Cardinality(ActiveOn(n))

WithRoom == {n \in Nodes : Load(n) < MaxUsers[n]}

\* Mutant: the first node in order is taken, however full it is.
PicksFirst(n) == \A m \in Nodes : n <= m

\* The first of the least loaded; nothing if all are full.
Picks(n) ==
  /\ n \in WithRoom
  /\ \A m \in WithRoom : Load(n) < Load(m) \/ (Load(n) = Load(m) /\ n <= m)

\* Others who have picked n and whose row is not there yet.
ComingTo(n) == {u \in Customers : op[u].task = "create" /\ op[u].node = n}

-----------------------------------------------------------------------------
(* An agent's change of the configuration.                                 *)

Paying(c, n) == c[n] \ Kept

\* Mutant: the administrator's clients count as well.
RefusedCountingAll(c, o, e) ==
  IF o.task \in Adding
  THEN e \notin c[o.node] /\ Cardinality(c[o.node]) >= AgentMax[o.node]
  ELSE e \notin c[o.node]

\* UserLimitReached, UserNotFound.  A client with the email is replaced.
Refused(c, o, e) ==
  IF o.task \in Adding
  THEN e \notin c[o.node] /\ Cardinality(Paying(c, o.node)) >= AgentMax[o.node]
  ELSE e \notin c[o.node]

\* An added client is the only one with its email in any inbound.
Changed(c, o, e) ==
  IF o.task \in Adding
  THEN [n \in Nodes |-> IF n = o.node THEN c[n] \union {e} ELSE c[n] \ {e}]
  ELSE [c EXCEPT ![o.node] = @ \ {e}]

-----------------------------------------------------------------------------
(* The operations.                                                         *)

InFlight == Cardinality({u \in Customers : op[u] # Idle})

Begins(u, task, node) ==
  /\ op[u] = Idle
  /\ InFlight < MaxInFlight
  /\ op' = [op EXCEPT ![u] = [task |-> task, step |-> "call", node |-> node]]

Goes(u, step) == op' = [op EXCEPT ![u].step = step]
Ends(u)       == op' = [op EXCEPT ![u] = Idle]

\* ensure_vpn_key: an active row is synchronised, an expired one restored; it
\* returns to the node it had without a look at that node's load.
EnsureKept(u) ==
  /\ row[u].status # "none"
  /\ Begins(u, IF row[u].status = "active" THEN "sync" ELSE "restore", row[u].node)
  /\ excused' = IF row[u].status = "active" THEN excused ELSE excused \union {u}
  /\ UNCHANGED <<file, lock, draft, row>>

\* ensure_vpn_key, _create_vpn_device: no row yet, so a node is picked; if all
\* are full that is a BillingError, which no handler of a button catches.
EnsureNew(u) ==
  /\ row[u].status = "none"
  /\ \E n \in Nodes :
       /\ Picks(n)
       /\ Begins(u, "create", n)
       /\ excused' = IF ComingTo(n) = {} THEN excused \ {u} ELSE excused \union {u}
  /\ UNCHANGED <<file, lock, draft, row>>

\* expire_due_subscriptions comes to the row of a subscription that is over.
Expire(u) ==
  /\ row[u].status = "active"
  /\ Begins(u, "expire", row[u].node)
  /\ UNCHANGED <<file, lock, draft, row, excused>>

\* The request has ended in an error, which the expiry job only logs.
NotDone(u) == IF op[u].task = "expire" THEN Goes(u, "commit") ELSE Ends(u)

\* The agent takes the lock and reads, and may refuse the request.
AgentReads(u) ==
  /\ op[u].step = "call"
  /\ lock = Nobody
  /\ IF Refused(file, op[u], u)
     THEN NotDone(u) /\ UNCHANGED <<lock, draft>>
     ELSE /\ lock' = u
          /\ draft' = Changed(file, op[u], u)
          /\ Goes(u, "write")
  /\ UNCHANGED <<file, row, excused>>

\* The agent writes, releases the lock and answers.
AgentWrites(u) ==
  /\ op[u].step = "write"
  /\ file' = draft
  /\ lock' = Nobody
  /\ draft' = Empty
  /\ IF op[u].task \in {"sync", "undo"} THEN Ends(u) ELSE Goes(u, "commit")
  /\ UNCHANGED <<row, excused>>

\* The agent cannot be reached, or does not get the lock in time; Xray refuses
\* what it has written and the old file is put back; or its answer is lost.
\* (The file between the writing and the putting back is in XrayAgent.)
AgentFails(u) ==
  /\ "agent" \in Faults
  /\ \/ op[u].step = "call" /\ UNCHANGED <<file, lock, draft>>
     \/ /\ op[u].step = "write"
        /\ file' \in {file, draft}
        /\ lock' = Nobody
        /\ draft' = Empty
  /\ NotDone(u)
  /\ UNCHANGED <<row, excused>>

\* The row is stored; if the commit fails, what was added is removed again.
Commit(u) ==
  /\ op[u].step = "commit"
  /\ Ends(u)
  /\ row' = [row EXCEPT ![u] =
       [status |-> IF op[u].task = "expire" THEN "expired" ELSE "active", node |-> op[u].node]]
  /\ UNCHANGED <<file, lock, draft, excused>>

CommitFails(u) ==
  /\ "commit" \in Faults
  /\ op[u].step = "commit"
  /\ IF op[u].task = "expire"
     THEN Ends(u)
     ELSE op' = [op EXCEPT ![u].task = "undo", ![u].step = "call"]
  /\ UNCHANGED <<file, lock, draft, row, excused>>

Agent(u)     == AgentReads(u) \/ AgentWrites(u)
Operation(u) == EnsureKept(u) \/ EnsureNew(u) \/ Expire(u) \/ Commit(u) \/ CommitFails(u)

=============================================================================
