-------------------------- MODULE EntryCleanerProofs --------------------------
(***************************************************************************)
(* Theorems about EntryCleaner, for any number of nodes and customers, any *)
(* limits and any choice of what may fail.                                 *)
(***************************************************************************)
EXTENDS EntryCleaner, FiniteSetTheorems, TLAPS

\* The row an operation was begun for is still there when it goes on.
RowOK(u) ==
  LET there(status) == row[u] = [status |-> status, node |-> op[u].node] IN
  /\ row[u] = NoRow \/ (row[u].status # "none" /\ row[u].node \in Nodes)
  /\ op[u].task \in {"sync", "expire"} => there("active")
  /\ op[u].task = "restore" => there("expired") /\ u \in excused
  /\ op[u].task = "create" => row[u] = NoRow
  /\ op[u].task = "undo" => row[u].status # "active"

\* An operation in progress has a task and a node; it writes under the lock.
OpOK(u) ==
  /\ op[u] = Idle \/ (op[u].step # "idle" /\ op[u].task # "none" /\ op[u].node \in Nodes)
  /\ op[u].step = "commit" => op[u].task \in {"restore", "create", "expire"}
  /\ op[u].step = "write" <=> lock = u

Base == TypeOK /\ \A u \in Customers : OpOK(u) /\ RowOK(u)

-----------------------------------------------------------------------------
(* Types and the operations' own state.                                    *)

\* What an agent makes of a configuration is a configuration.
LEMMA ChangedType ==
  ASSUME NEW c \in Config, NEW u \in Customers, NEW o \in Op, o.node \in Nodes
  PROVE  Changed(c, o, u) \in Config
BY DEF Changed, Config, Emails

\* So is what the script makes of it.
LEMMA CleanType ==
  ASSUME NEW c \in Config, NEW tags
  PROVE  CleanConfig(c, tags) \in Config
BY DEF CleanConfig, Config

LEMMA BaseInit ==
  ASSUME Init0 PROVE Base
<1>1. Empty \in Config /\ file \in Config
  BY DEF Init0, Init, Config, Empty, Emails
<1>2. TypeOK
  BY <1>1 DEF Init0, Init, TypeOK, Row, NoRow, Op, Idle, Script, NotRun
<1>3. ASSUME NEW u \in Customers PROVE OpOK(u) /\ RowOK(u)
  BY <1>3, EmailsAssumption DEF Init0, Init, OpOK, RowOK, NoRow, Idle
<1> QED BY <1>2, <1>3 DEF Base

\* The operations of one user: its own state is kept in order ...
LEMMA BaseOperation ==
  ASSUME Base, NEW u \in Customers, OperationAtWork(u) PROVE Base'
<1> USE EmailsAssumption DEF Base, TypeOK, OpOK, RowOK
<1> DEFINE others == \A v \in Customers \ {u} :
                       /\ op'[v] = op[v] /\ row'[v] = row[v]
                       /\ v \in excused' <=> v \in excused
<1>0. UNCHANGED <<file, lock, draft, script>> /\ loose' \subseteq Customers
  BY DEF OperationAtWork, Operation, EnsureKept, EnsureNew, Expire, Commit, CommitFails
<1>1. CASE EnsureKept(u)
  <2>1. op[u] = Idle /\ row' = row /\ row[u].status \in {"active", "expired"} /\ row[u].node \in Nodes
    BY <1>1 DEF EnsureKept, Begins, Row, NoRow
  <2>2. op' = [op EXCEPT ![u] = [task |-> IF row[u].status = "active" THEN "sync" ELSE "restore",
                                 step |-> "call", node |-> row[u].node]]
    BY <1>1 DEF EnsureKept, Begins
  <2>3. excused' = IF row[u].status = "active" THEN excused ELSE excused \union {u}
    BY <1>1 DEF EnsureKept
  <2>4. TypeOK'
    BY <1>0, <2>1, <2>2, <2>3 DEF Op, Adding
  <2>5. others
    BY <2>1, <2>2, <2>3
  <2>6. OpOK(u)' /\ RowOK(u)'
    BY <1>0, <2>1, <2>2, <2>3 DEF Idle, Row
  <2> QED BY <1>0, <2>4, <2>5, <2>6
<1>2. CASE EnsureNew(u)
  <2>1. PICK n \in Nodes :
          /\ op' = [op EXCEPT ![u] = [task |-> "create", step |-> "call", node |-> n]]
          /\ excused' = IF ComingTo(n) = {} THEN excused \ {u} ELSE excused \union {u}
    BY <1>2 DEF EnsureNew, Begins
  <2>2. op[u] = Idle /\ row' = row /\ row[u] = NoRow
    BY <1>2 DEF EnsureNew, Begins
  <2>4. TypeOK'
    BY <1>0, <2>1, <2>2 DEF Op, Adding
  <2>5. others
    BY <2>1, <2>2
  <2>6. OpOK(u)' /\ RowOK(u)'
    BY <1>0, <2>1, <2>2 DEF Idle
  <2> QED BY <1>0, <2>4, <2>5, <2>6
<1>3. CASE Expire(u)
  <2>1. op[u] = Idle /\ row' = row /\ row[u].status = "active" /\ row[u].node \in Nodes /\ excused' = excused
    BY <1>3 DEF Expire, Begins, Row, NoRow
  <2>2. op' = [op EXCEPT ![u] = [task |-> "expire", step |-> "call", node |-> row[u].node]]
    BY <1>3 DEF Expire, Begins
  <2>4. TypeOK'
    BY <1>0, <2>1, <2>2 DEF Op, Removing
  <2>5. others
    BY <2>1, <2>2
  <2>6. OpOK(u)' /\ RowOK(u)'
    BY <1>0, <2>1, <2>2 DEF Idle, Row
  <2> QED BY <1>0, <2>4, <2>5, <2>6
<1>4. CASE Commit(u)
  <2>1. op[u].step = "commit" /\ op[u].node \in Nodes /\ excused' = excused /\ op' = [op EXCEPT ![u] = Idle]
    BY <1>4 DEF Commit, Ends, Idle
  <2>2. row' = [row EXCEPT ![u] =
                 [status |-> IF op[u].task = "expire" THEN "expired" ELSE "active", node |-> op[u].node]]
    BY <1>4 DEF Commit
  <2>4. TypeOK'
    BY <1>0, <2>1, <2>2 DEF Op, Row, Idle
  <2>5. others
    BY <2>1, <2>2
  <2>6. OpOK(u)' /\ RowOK(u)'
    BY <1>0, <2>1, <2>2 DEF Idle
  <2> QED BY <1>0, <2>4, <2>5, <2>6
<1>5. CASE CommitFails(u)
  <2>1. op[u].step = "commit" /\ op[u].node \in Nodes /\ excused' = excused /\ row' = row
    BY <1>5 DEF CommitFails, Idle
  <2>2. op' = [op EXCEPT ![u] = IF op[u].task = "expire" THEN Idle
                                ELSE [task |-> "undo", step |-> "call", node |-> op[u].node]]
    BY <1>5 DEF CommitFails, Ends, Op
  <2>4. TypeOK'
    BY <1>0, <2>1, <2>2 DEF Op, Idle, Removing
  <2>5. others
    BY <2>1, <2>2
  <2>6. OpOK(u)' /\ RowOK(u)'
    BY <1>0, <2>1, <2>2 DEF Idle, NoRow
  <2> QED BY <1>0, <2>4, <2>5, <2>6
<1> QED BY <1>1, <1>2, <1>3, <1>4, <1>5 DEF OperationAtWork, Operation

\* ... and so it is by the agent that works for it, or fails to.
LEMMA BaseAgent ==
  ASSUME Base, NEW u \in Customers, AgentAtWork(u) PROVE Base'
<1> USE EmailsAssumption DEF Base, TypeOK, OpOK, RowOK
<1>0. UNCHANGED <<row, excused, script>> /\ loose' \subseteq Customers
  BY DEF AgentAtWork, Agent, AgentReads, AgentWrites
<1>1. CASE AgentReads(u) /\ Refused(file, op[u], u)
  <2>1. /\ op[u].step = "call" /\ UNCHANGED <<file, lock, draft>>
        /\ op' = [op EXCEPT ![u] = IF op[u].task = "expire" THEN [op[u] EXCEPT !.step = "commit"]
                                   ELSE Idle]
    BY <1>1 DEF AgentReads, NotDone, Goes, Ends, Op
  <2> QED BY <1>0, <2>1 DEF Op, Idle
<1>2. CASE AgentReads(u) /\ ~Refused(file, op[u], u)
  <2>1. /\ op[u].step = "call" /\ lock = Nobody /\ lock' = u /\ file' = file
        /\ op' = [op EXCEPT ![u] = [op[u] EXCEPT !.step = "write"]]
        /\ draft' = Changed(file, op[u], u)
    BY <1>2 DEF AgentReads, Goes
  <2>2. draft' \in Config
    BY <2>1, ChangedType DEF Idle
  <2> QED BY <1>0, <2>1, <2>2 DEF Op, Idle
<1>3. CASE AgentWrites(u)
  <2>1. /\ op[u].step = "write" /\ lock' = Nobody /\ file' = draft /\ draft' = Empty
        /\ op' = [op EXCEPT ![u] = IF op[u].task \in {"sync", "undo"} THEN Idle
                                   ELSE [op[u] EXCEPT !.step = "commit"]]
    BY <1>3 DEF AgentWrites, Goes, Ends
  <2>2. Empty \in Config
    BY DEF Empty, Config
  <2> QED BY <1>0, <2>1, <2>2 DEF Op, Idle, Adding, Removing
<1> QED BY <1>1, <1>2, <1>3 DEF AgentAtWork, Agent

LEMMA BaseFault ==
  ASSUME Base, NEW u \in Customers, AgentAtFault(u) PROVE Base'
<1> USE EmailsAssumption DEF Base, TypeOK, OpOK, RowOK
<1>0. UNCHANGED <<row, excused, script>> /\ loose' \subseteq Customers
  BY DEF AgentAtFault, AgentFails
<1>1. /\ op[u].step \in {"call", "write"} /\ op[u].node \in Nodes /\ op[u].task # "none"
      /\ op' = [op EXCEPT ![u] = IF op[u].task = "expire" THEN [op[u] EXCEPT !.step = "commit"]
                                 ELSE Idle]
  BY DEF AgentAtFault, AgentFails, NotDone, Goes, Ends, Op, Idle
<1>2. CASE op[u].step = "call" /\ UNCHANGED <<file, lock, draft>>
  BY <1>0, <1>1, <1>2 DEF Op, Idle
<1>3. CASE op[u].step = "write" /\ file' \in {file, draft} /\ lock' = Nobody /\ draft' = Empty
  <2>1. Empty \in Config
    BY DEF Empty, Config
  <2> QED BY <1>0, <1>1, <1>3, <2>1 DEF Op, Idle
<1> QED BY <1>2, <1>3 DEF AgentAtFault, AgentFails

LEMMA BaseCleaning ==
  ASSUME Base, Cleaning PROVE Base'
<1> USE DEF Base, TypeOK, Script
<1>1. UNCHANGED <<lock, draft, row, op, excused>>
  BY DEF Cleaning, ReadOriginal, MakeBackup, ReplaceConfig, TestConfig, RestoreBackup, vars
<1>2. Over \in Script
  BY DEF Over, NotRun, Empty, Config
<1>3. file' \in Config /\ script' \in Script /\ loose' \subseteq Customers
  <2>1. CASE ReadOriginal
    <3>1. PICK tags : /\ script' = [script EXCEPT !.step = "read", !.updated = CleanConfig(file, tags)]
                      /\ loose' = loose \union ((Printed(file, tags) \union {lock}) \intersect Customers)
      BY <2>1 DEF ReadOriginal
    <3>2. CleanConfig(file, tags) \in Config /\ file' = file
      BY <2>1, CleanType DEF ReadOriginal, vars
    <3> QED BY <3>1, <3>2
  <2>2. CASE MakeBackup
    BY <2>2 DEF MakeBackup, vars
  <2>3. CASE ReplaceConfig
    BY <2>3 DEF ReplaceConfig
  <2>4. CASE TestConfig
    BY <2>4, <1>2 DEF TestConfig, vars
  <2>5. CASE RestoreBackup
    BY <2>5, <1>2 DEF RestoreBackup
  <2> QED BY <2>1, <2>2, <2>3, <2>4, <2>5 DEF Cleaning
<1> QED BY <1>1, <1>3 DEF OpOK, RowOK

LEMMA BaseStep ==
  ASSUME Base, [Next]_allVars PROVE Base'
<1>1. CASE UNCHANGED allVars
  BY <1>1 DEF allVars, vars, Base, TypeOK, OpOK, RowOK
<1> QED BY <1>1, BaseOperation, BaseAgent, BaseFault, BaseCleaning DEF Next

THEOREM BaseCorrect == Spec => []Base
BY BaseInit, BaseStep, PTL DEF Spec

\* Every variable stays within its type.
THEOREM TypeCorrect == Spec => []TypeOK
<1>1. Base => TypeOK
  BY DEF Base
<1> QED BY <1>1, BaseCorrect, PTL

-----------------------------------------------------------------------------
(* The clients the administrator keeps.                                    *)

\* Two configurations have the same clients among those the script spares.
SameKept(c, d) == \A n \in Nodes, e \in Spared \ Customers : e \in c[n] <=> e \in d[n]

\* Whatever is about to be written keeps them.
KeptInv ==
  /\ lock # Nobody => SameKept(draft, file)
  /\ script.step \in {"read", "saved"} => SameKept(script.updated, file)
  /\ script.step \in {"saved", "written", "refused"} => SameKept(script.backup, file)

LEMMA KeptInit == Init0 => KeptInv
BY DEF Init0, Init, KeptInv, NotRun

\* No step touches them, and what is about to be written then keeps them too.
LEMMA KeptStep ==
  ASSUME Base, KeptInv, [Next]_allVars PROVE KeptInv' /\ SameKept(file', file)
<1> USE EmailsAssumption DEF KeptInv, SameKept
<1>1. CASE UNCHANGED allVars
  BY <1>1 DEF allVars, vars
<1>2. ASSUME NEW u \in Customers, OperationAtWork(u) PROVE KeptInv' /\ SameKept(file', file)
  BY <1>2 DEF OperationAtWork, Operation, EnsureKept, EnsureNew, Expire, Commit, CommitFails
<1>3. ASSUME NEW u \in Customers, AgentAtWork(u) PROVE KeptInv' /\ SameKept(file', file)
  <2>0. script' = script
    BY <1>3 DEF AgentAtWork
  <2>1. CASE AgentReads(u) /\ Refused(file, op[u], u)
    BY <2>0, <2>1 DEF AgentReads
  <2>2. CASE AgentReads(u) /\ ~Refused(file, op[u], u)
    <3>1. file \in Config /\ op[u].node \in Nodes /\ op[u].step # "idle"
      BY <2>2 DEF AgentReads, Base, TypeOK, OpOK, Idle
    <3>2. file' = file /\ draft' = Changed(file, op[u], u)
      BY <2>2 DEF AgentReads
    <3>3. SameKept(Changed(file, op[u], u), file)
      BY <3>1 DEF Changed, Config
    <3> QED BY <2>0, <3>2, <3>3
  <2>3. CASE AgentWrites(u)
    BY <2>0, <2>3 DEF AgentWrites, Base, TypeOK, OpOK
  <2> QED BY <1>3, <2>1, <2>2, <2>3 DEF AgentAtWork, Agent
<1>4. ASSUME NEW u \in Customers, AgentAtFault(u) PROVE KeptInv' /\ SameKept(file', file)
  BY <1>4 DEF AgentAtFault, AgentFails, Base, TypeOK, OpOK
<1>5. ASSUME Cleaning PROVE KeptInv' /\ SameKept(file', file)
  <2>0. script \in Script /\ lock' = lock /\ draft' = draft
    BY <1>5 DEF Base, TypeOK, Cleaning, ReadOriginal, MakeBackup, ReplaceConfig, TestConfig, RestoreBackup, vars
  <2>1. CASE ReadOriginal
    <3>1. PICK tags : script' = [script EXCEPT !.step = "read", !.updated = CleanConfig(file, tags)]
      BY <2>1 DEF ReadOriginal
    <3>2. SameKept(CleanConfig(file, tags), file) /\ file' = file
      BY <2>1 DEF ReadOriginal, CleanConfig, vars
    <3> QED BY <2>0, <2>1, <3>1, <3>2 DEF Script
  <2>2. CASE MakeBackup
    BY <2>0, <2>2 DEF MakeBackup, vars, Script
  <2>3. CASE ReplaceConfig
    BY <2>0, <2>3 DEF ReplaceConfig, Script
  <2>4. CASE TestConfig
    BY <2>0, <2>4 DEF TestConfig, vars, Script, Over, NotRun
  <2>5. CASE RestoreBackup
    BY <2>0, <2>5 DEF RestoreBackup, Script, Over, NotRun
  <2> QED BY <1>5, <2>1, <2>2, <2>3, <2>4, <2>5 DEF Cleaning
<1> QED BY <1>1, <1>2, <1>3, <1>4, <1>5 DEF Next

\* The clients the administrator keeps stay where they are in every step, of an
\* agent or of the script.
THEOREM KeptCorrect == Spec => KeptStay
<1>1. Base /\ KeptInv /\ [Next]_allVars =>
        KeptInv' /\ [\A n \in Nodes, e \in Spared \ Customers : e \in file'[n] <=> e \in file[n]]_allVars
  BY KeptStep DEF SameKept
<1> QED BY <1>1, KeptInit, BaseCorrect, PTL DEF Spec, KeptStay

-----------------------------------------------------------------------------
(* The limit.                                                              *)

\* Rows on n and rows on their way there, the excused ones aside.
Counted(n) == (ActiveOn(n) \union ComingTo(n)) \ excused

LimitInv == \A n \in Nodes : Cardinality(Counted(n)) <= MaxUsers[n]

LEMMA LimitInit ==
  ASSUME Init0 PROVE LimitInv
<1>1. \A n \in Nodes : Counted(n) = {}
  BY DEF Init0, Init, Counted, ActiveOn, ComingTo, NoRow, Idle
<1> QED BY <1>1, FS_EmptySet, NodesAssumption DEF LimitInv

\* Fewer rows are within the limit as well.
LEMMA FewerFit ==
  ASSUME NEW n \in Nodes, NEW S \in SUBSET Customers, Cardinality(S) <= MaxUsers[n],
         NEW T \in SUBSET S
  PROVE  Cardinality(T) <= MaxUsers[n]
<1>1. IsFiniteSet(S)
  BY FS_Subset, EmailsAssumption
<1>2. Cardinality(T) <= Cardinality(S) /\ IsFiniteSet(T)
  BY <1>1, FS_Subset
<1> QED BY <1>1, <1>2, FS_CardinalityType, NodesAssumption

\* Picking a node with room keeps the limit if nothing else is on its way there.
LEMMA LimitPick ==
  ASSUME Base, LimitInv, NEW u \in Customers, EnsureNew(u) PROVE LimitInv'
<1>1. PICK n \in Nodes :
        /\ Picks(n)
        /\ op' = [op EXCEPT ![u] = [task |-> "create", step |-> "call", node |-> n]]
        /\ excused' = IF ComingTo(n) = {} THEN excused \ {u} ELSE excused \union {u}
  BY DEF EnsureNew, Begins
<1>2. row' = row /\ op[u] = Idle /\ row[u].status = "none" /\ op \in [Customers -> Op]
  BY DEF EnsureNew, Begins, Base, TypeOK
<1>3. ASSUME NEW m \in Nodes, m # n \/ ComingTo(n) # {} PROVE Counted(m)' = Counted(m)
  BY <1>1, <1>2, <1>3 DEF Counted, ActiveOn, ComingTo, Idle
<1>4. CASE ComingTo(n) = {}
  <2>1. Counted(n)' \subseteq ActiveOn(n) \union {u}
    BY <1>1, <1>2, <1>4 DEF Counted, ActiveOn, ComingTo
  <2>2. IsFiniteSet(ActiveOn(n)) /\ ActiveOn(n) \subseteq Customers
    BY FS_Subset, EmailsAssumption DEF ActiveOn
  <2>3. Cardinality(ActiveOn(n)) < MaxUsers[n]
    BY <1>1 DEF Picks, WithRoom, Load
  <2>4. Cardinality(ActiveOn(n) \union {u}) <= MaxUsers[n]
    <3>1. Cardinality(ActiveOn(n)) \in Nat /\ MaxUsers[n] \in Nat
      BY <2>2, FS_CardinalityType, NodesAssumption
    <3>2. u \notin ActiveOn(n)
      BY <1>2 DEF ActiveOn
    <3>3. Cardinality(ActiveOn(n) \union {u}) = Cardinality(ActiveOn(n)) + 1
      BY <2>2, <3>2, FS_AddElement
    <3> QED BY <2>3, <3>1, <3>3
  <2>5. Cardinality(Counted(n)') <= MaxUsers[n]
    BY <2>1, <2>2, <2>4, FewerFit
  <2> QED BY <1>3, <2>5 DEF LimitInv
<1> QED BY <1>3, <1>4 DEF LimitInv

\* No other step adds a row to those counted.
LEMMA LimitElse ==
  ASSUME Base, [Next]_allVars, \A u \in Customers : ~EnsureNew(u), NEW n \in Nodes
  PROVE  Counted(n)' \subseteq Counted(n)
<1> USE DEF Counted, ActiveOn, ComingTo
<1>0. op \in [Customers -> Op] /\ row \in [Customers -> Row]
  BY DEF Base, TypeOK
<1>1. CASE UNCHANGED allVars
  BY <1>1 DEF allVars, vars
<1>2. CASE Cleaning
  BY <1>2 DEF Cleaning, ReadOriginal, MakeBackup, ReplaceConfig, TestConfig, RestoreBackup, vars
<1>3. ASSUME NEW u \in Customers, Agent(u) \/ AgentFails(u) PROVE Counted(n)' \subseteq Counted(n)
  <2>1. row' = row /\ excused' = excused
    BY <1>3 DEF Agent, AgentReads, AgentWrites, AgentFails
  <2>2. \A v \in Customers : op'[v].task = "create" => op'[v].task = op[v].task /\ op'[v].node = op[v].node
    BY <1>0, <1>3 DEF Agent, AgentReads, AgentWrites, AgentFails, NotDone, Goes, Ends, Idle, Op
  <2> QED BY <2>1, <2>2
<1>4. ASSUME NEW u \in Customers, EnsureKept(u) \/ Expire(u) PROVE Counted(n)' \subseteq Counted(n)
  <2>1. row' = row /\ excused \subseteq excused'
    BY <1>4 DEF EnsureKept, Expire
  <2>2. \A v \in Customers : op'[v].task = "create" => op'[v] = op[v]
    BY <1>0, <1>4 DEF EnsureKept, Expire, Begins
  <2> QED BY <2>1, <2>2
<1>5. ASSUME NEW u \in Customers, Commit(u) PROVE Counted(n)' \subseteq Counted(n)
  <2>1. op[u].task \in {"create", "expire"} \/ u \in excused
    BY <1>5 DEF Commit, Base, OpOK, RowOK
  <2> QED BY <1>0, <1>5, <2>1 DEF Commit, Ends, Idle
<1>6. ASSUME NEW u \in Customers, CommitFails(u) PROVE Counted(n)' \subseteq Counted(n)
  <2>1. row' = row /\ excused' = excused
    BY <1>6 DEF CommitFails
  <2>2. \A v \in Customers : op'[v].task = "create" => op'[v] = op[v]
    BY <1>0, <1>6 DEF CommitFails, Ends, Idle, Op
  <2> QED BY <2>1, <2>2
<1> QED BY <1>1, <1>2, <1>3, <1>4, <1>5, <1>6 DEF Next, AgentAtWork, AgentAtFault, OperationAtWork, Operation

LEMMA LimitStep ==
  ASSUME Base, LimitInv, [Next]_allVars PROVE LimitInv'
<1>1. CASE \E u \in Customers : EnsureNew(u)
  BY <1>1, LimitPick
<1>2. CASE \A u \in Customers : ~EnsureNew(u)
  <2>1. ASSUME NEW n \in Nodes PROVE Cardinality(Counted(n)') <= MaxUsers[n]
    <3>1. Counted(n) \in SUBSET Customers /\ Counted(n)' \in SUBSET Counted(n)
      BY <1>2, LimitElse DEF Counted, ActiveOn, ComingTo
    <3> QED BY <3>1, FewerFit DEF LimitInv
  <2> QED BY <2>1 DEF LimitInv
<1> QED BY <1>1, <1>2

LEMMA LimitKept == Spec => [](Base /\ LimitInv)
BY LimitInit, LimitStep, BaseCorrect, PTL DEF Spec

\* max_users holds on every node, apart from rows that came back and rows whose
\* node was picked while another row was on its way there.
THEOREM LimitCorrect == Spec => []LimitUnlessOverlap
<1>1. ASSUME LimitInv PROVE LimitUnlessOverlap
  <2>1. ASSUME NEW n \in Nodes PROVE Cardinality(ActiveOn(n) \ excused) <= MaxUsers[n]
    <3>1. Counted(n) \in SUBSET Customers /\ ActiveOn(n) \ excused \in SUBSET Counted(n)
      BY DEF Counted, ActiveOn, ComingTo
    <3> QED BY <1>1, <3>1, FewerFit DEF LimitInv
  <2> QED BY <2>1 DEF LimitUnlessOverlap
<1> QED BY <1>1, LimitKept, PTL

\* If every client at a node that was picked belongs to a row within the limit,
\* the new row is counted as one more of them, so the agent has room.
THEOREM RefusalCorrect == Spec => []RefusalExplained
<1>1. ASSUME Base, LimitInv PROVE RefusalExplained
  <2>1. SUFFICES ASSUME NEW u \in Customers, NEW n \in Nodes, op[u].task = "create", op[u].node = n,
                        Refused(file, op[u], u), Paying(file, n) \subseteq ActiveOn(n),
                        u \notin excused, ActiveOn(n) \intersect excused = {}
                 PROVE  FALSE
    BY <1>1 DEF RefusalExplained, Base, OpOK, Idle
  <2>2. Cardinality(Paying(file, n)) >= AgentMax[n]
    BY <2>1 DEF Refused, Adding
  <2>3. u \notin ActiveOn(n) /\ ActiveOn(n) \union {u} \in SUBSET Counted(n) /\ Counted(n) \in SUBSET Customers
    <3>1. row[u] = NoRow
      BY <1>1, <2>1 DEF Base, RowOK
    <3>2. u \notin ActiveOn(n) /\ u \in ComingTo(n)
      BY <2>1, <3>1 DEF NoRow, ActiveOn, ComingTo
    <3>3. ActiveOn(n) \union ComingTo(n) \subseteq Customers
      BY DEF ActiveOn, ComingTo
    <3> QED BY <2>1, <3>2, <3>3 DEF Counted
  <2>4. IsFiniteSet(ActiveOn(n))
    BY FS_Subset, EmailsAssumption DEF ActiveOn
  <2>5. Cardinality(Paying(file, n)) <= Cardinality(ActiveOn(n)) /\ IsFiniteSet(Paying(file, n))
    BY <2>1, <2>4, FS_Subset
  <2>6. Cardinality(ActiveOn(n) \union {u}) = Cardinality(ActiveOn(n)) + 1
    BY <2>3, <2>4, FS_AddElement
  <2>7. Cardinality(ActiveOn(n) \union {u}) <= MaxUsers[n]
    BY <1>1, <2>3, FewerFit DEF LimitInv
  <2> QED BY <2>2, <2>4, <2>5, <2>6, <2>7, FS_CardinalityType, NodesAssumption, LimitsAssumption
<1> QED BY <1>1, LimitKept, PTL

-----------------------------------------------------------------------------
(* What users are shown.                                                   *)

\* The nodes at which a configuration has the client of u.
Homes(c, u) == {n \in Nodes : u \in c[n]}

\* Where the file should have it while an operation for u is in progress.
Due(u) ==
  IF op[u].task = "undo" \/ (op[u].step = "commit" /\ op[u].task # "expire") THEN {op[u].node}
  ELSE IF op[u].step = "commit" THEN {}
  ELSE Shown(u)

\* The configurations about to be written do not differ for anyone but the user
\* whose agent has the lock; the script's only for those that are loose.
HomeInv ==
  /\ \A u \in Customers \ loose : Homes(file, u) = Due(u)
  /\ \A u \in Customers : lock = u =>
       /\ op[u].task \in Adding => Homes(draft, u) = {op[u].node}
       /\ u \notin loose /\ op[u].task \notin Adding => Homes(draft, u) = {}
       /\ Running => u \in loose
       /\ \A v \in Customers \ (loose \union {u}) : Homes(draft, v) = Homes(file, v)
  /\ \A u \in Customers \ loose :
       /\ script.step \in {"read", "saved"} => Homes(script.updated, u) = Homes(file, u)
       /\ script.step \in {"saved", "written", "refused"} => Homes(script.backup, u) = Homes(file, u)

LEMMA HomeInit ==
  ASSUME Init0 PROVE HomeInv
<1>1. \A u \in Customers : Homes(file, u) = {}
  BY EmailsAssumption DEF Init0, Init, Homes
<1>2. \A u \in Customers : Due(u) = {}
  BY DEF Init0, Init, Due, Shown, HasView, Idle, NoRow
<1> QED BY <1>1, <1>2, EmailsAssumption DEF Init0, Init, HomeInv, NotRun

\* Operations leave the files alone, and take their own user from one place
\* where the client is due to the next.
LEMMA HomeOperation ==
  ASSUME Base, HomeInv, NEW u \in Customers, OperationAtWork(u) PROVE HomeInv'
<1>1. /\ UNCHANGED <<file, lock, draft, script>> /\ loose \subseteq loose'
      /\ op \in [Customers -> Op] /\ row \in [Customers -> Row] /\ OpOK(u) /\ RowOK(u)
  BY DEF OperationAtWork, Operation, EnsureKept, EnsureNew, Expire, Commit, CommitFails, Base, TypeOK
<1>2. op[u].step # "write" /\ lock # u
  BY <1>1 DEF OperationAtWork, Operation, EnsureKept, EnsureNew, Expire, Commit, CommitFails, OpOK, Begins, Idle
<1>3. \A v \in Customers \ {u} : op'[v] = op[v] /\ row'[v] = row[v]
  BY <1>1 DEF OperationAtWork, Operation, EnsureKept, EnsureNew, Expire, Commit, CommitFails, Begins, Ends
<1>4. \A v \in Customers \ {u} : Due(v)' = Due(v)
  BY <1>3 DEF Due, Shown, HasView
<1>5. ASSUME u \notin loose' PROVE Due(u)' = Due(u)
  <2>1. CASE EnsureKept(u) \/ EnsureNew(u) \/ Expire(u)
    <3>1. op[u] = Idle /\ row' = row
      BY <2>1 DEF EnsureKept, EnsureNew, Expire, Begins
    <3>2. op'[u].task # "undo" /\ op'[u].step = "call"
      BY <1>1, <2>1 DEF EnsureKept, EnsureNew, Expire, Begins
    <3> QED BY <3>1, <3>2 DEF Due, Shown, HasView, Idle
  <2>2. CASE Commit(u)
    <3>1. /\ op[u].step = "commit" /\ op[u].task # "undo" /\ op'[u] = Idle
          /\ row'[u] = [status |-> IF op[u].task = "expire" THEN "expired" ELSE "active",
                        node |-> op[u].node]
      BY <1>1, <2>2 DEF Commit, Ends, OpOK
    <3> QED BY <3>1 DEF Due, Shown, HasView, Idle
  <2>3. CASE CommitFails(u)
    <3>1. op[u].task # "expire"
      BY <1>5, <2>3 DEF OperationAtWork, CommitFails
    <3>2. op[u].step = "commit" /\ op'[u].task = "undo" /\ op'[u].node = op[u].node
      BY <1>1, <2>3, <3>1 DEF CommitFails, Op
    <3> QED BY <3>1, <3>2 DEF Due
  <2> QED BY <2>1, <2>2, <2>3 DEF OperationAtWork, Operation
<1> QED BY <1>1, <1>2, <1>3, <1>4, <1>5 DEF HomeInv, Running

\* An agent that has read the file: who is where in its draft.
LEMMA HomeDraft ==
  ASSUME NEW c \in Config, NEW u \in Customers, NEW o \in Op, o.node \in Nodes
  PROVE  /\ o.task \in Adding => Homes(Changed(c, o, u), u) = {o.node}
         /\ o.task \notin Adding => Homes(Changed(c, o, u), u) = Homes(c, u) \ {o.node}
         /\ \A v \in Customers \ {u} : Homes(Changed(c, o, u), v) = Homes(c, v)
BY DEF Homes, Changed, Config

LEMMA HomeAgent ==
  ASSUME Base, HomeInv, NEW u \in Customers, AgentAtWork(u) PROVE HomeInv'
<1>1. /\ UNCHANGED <<row, script>> /\ Running' = Running
      /\ op \in [Customers -> Op] /\ row \in [Customers -> Row] /\ OpOK(u) /\ RowOK(u)
  BY DEF AgentAtWork, Agent, AgentReads, AgentWrites, Base, TypeOK, Running
<1>2. /\ \A v \in Customers \ {u} : op'[v] = op[v] /\ (v \in loose' <=> v \in loose)
      /\ Running => u \in loose'
  BY <1>1 DEF AgentAtWork, Agent, AgentReads, AgentWrites, NotDone, Goes, Ends
<1>3. \A v \in Customers \ {u} : Due(v)' = Due(v)
  BY <1>1, <1>2 DEF Due, Shown, HasView
<1>4. CASE AgentReads(u)
  <2>1. /\ op[u].step = "call" /\ lock = Nobody /\ file' = file /\ loose \subseteq loose'
        /\ op[u].node \in Nodes /\ op[u].task # "none" /\ file \in Config
    BY <1>1, <1>4 DEF AgentAtWork, AgentReads, OpOK, Idle, Base, TypeOK
  <2>2. ASSUME u \notin loose, op[u].task \in Removing PROVE Homes(file, u) = {op[u].node}
    <3>1. Homes(file, u) = Due(u)
      BY <2>2 DEF HomeInv
    <3>2. op[u].task = "undo" \/ row[u] = [status |-> "active", node |-> op[u].node]
      BY <1>1, <2>2 DEF RowOK, Removing
    <3> QED BY <2>1, <3>1, <3>2 DEF Due, Shown, HasView
  <2>3. CASE Refused(file, op[u], u)
    <3>1. lock' = Nobody /\ draft' = draft
      BY <1>4, <2>1, <2>3 DEF AgentReads
    <3>2. ASSUME u \notin loose PROVE Due(u)' = Due(u)
      <4>1. op[u].task \in Adding
        <5>1. op[u].task \in Removing => u \in file[op[u].node]
          BY <2>1, <2>2, <3>2 DEF Homes
        <5> QED BY <1>1, <2>1, <2>3, <5>1 DEF Refused, Op
      <4>2. op'[u] = Idle
        BY <1>1, <1>4, <2>3, <4>1 DEF AgentReads, NotDone, Ends, Adding
      <4> QED BY <1>1, <2>1, <4>1, <4>2 DEF Due, Shown, HasView, Idle, Adding
    <3>3. \A v \in Customers \ loose' : Homes(file, v)' = Due(v)'
      BY <1>3, <2>1, <3>2 DEF HomeInv
    <3> QED BY <1>1, <2>1, <3>1, <3>3, EmailsAssumption DEF HomeInv
  <2>4. CASE ~Refused(file, op[u], u)
    <3>1. lock' = u /\ draft' = Changed(file, op[u], u) /\ op'[u] = [op[u] EXCEPT !.step = "write"]
      BY <1>1, <1>4, <2>4 DEF AgentReads, Goes
    <3>2. Due(u)' = Due(u) /\ op'[u].task = op[u].task /\ op'[u].node = op[u].node
      BY <1>1, <2>1, <3>1 DEF Due, Shown, HasView, Op
    <3>3. \A v \in Customers \ loose' : Homes(file, v)' = Due(v)'
      BY <1>3, <2>1, <3>2 DEF HomeInv
    <3>4. /\ op[u].task \in Adding => Homes(draft', u) = {op[u].node}
          /\ u \notin loose /\ op[u].task \notin Adding => Homes(draft', u) = {}
          /\ \A v \in Customers \ {u} : Homes(draft', v) = Homes(file, v)
      <4>1. op[u] \in Op /\ (op[u].task \in Adding \/ op[u].task \in Removing)
        BY <1>1, <2>1 DEF Op
      <4> QED BY <2>1, <2>2, <3>1, <4>1, HomeDraft
    <3>5. \A v \in Customers : lock' = v =>
            /\ op'[v].task \in Adding => Homes(draft', v) = {op'[v].node}
            /\ v \notin loose' /\ op'[v].task \notin Adding => Homes(draft', v) = {}
            /\ Running' => v \in loose'
            /\ \A w \in Customers \ (loose' \union {v}) : Homes(draft', w) = Homes(file', w)
      BY <1>1, <1>2, <2>1, <3>1, <3>2, <3>4
    <3> QED BY <1>1, <2>1, <3>3, <3>5 DEF HomeInv
  <2> QED BY <2>3, <2>4
<1>5. CASE AgentWrites(u)
  <2>1. /\ op[u].step = "write" /\ lock = u /\ lock' = Nobody /\ file' = draft
        /\ op'[u] = IF op[u].task \in {"sync", "undo"} THEN Idle ELSE [op[u] EXCEPT !.step = "commit"]
    BY <1>1, <1>5 DEF AgentWrites, OpOK, Goes, Ends
  <2>2. \A v \in Customers \ (loose \union {u}) : Homes(file', v) = Homes(file, v)
    BY <2>1 DEF HomeInv
  <2>3. ASSUME u \notin loose' PROVE Homes(file', u) = Due(u)'
    <3>1. op[u].task \in Adding \/ u \notin loose
      BY <1>2, <2>3 DEF AgentAtWork
    <3>2. Homes(file', u) = IF op[u].task \in Adding THEN {op[u].node} ELSE {}
      BY <2>1, <3>1 DEF HomeInv
    <3>3. CASE op[u].task = "sync"
      BY <1>1, <2>1, <3>2, <3>3 DEF RowOK, Due, Shown, HasView, Idle, Adding
    <3>4. CASE op[u].task = "undo"
      BY <1>1, <2>1, <3>2, <3>4 DEF RowOK, Due, Shown, HasView, Idle, Adding
    <3>5. CASE op[u].task \in {"restore", "create", "expire"}
      BY <1>1, <2>1, <3>2, <3>5 DEF Due, Adding, Op
    <3> QED BY <1>1, <2>1, <3>3, <3>4, <3>5 DEF OpOK, Op, Adding, Removing, Idle
  <2>4. \A v \in Customers \ loose' : Homes(file', v) = Due(v)'
    BY <1>2, <1>3, <2>2, <2>3 DEF HomeInv
  <2>5. Running => \A v \in Customers \ loose' : v \notin loose /\ Homes(file', v) = Homes(file, v)
    BY <1>2, <2>2
  <2> QED BY <1>1, <2>1, <2>4, <2>5, EmailsAssumption DEF HomeInv, Running, Homes
<1> QED BY <1>4, <1>5 DEF AgentAtWork, Agent

\* A request that fails makes its own user loose, and nobody else.
LEMMA HomeFault ==
  ASSUME Base, HomeInv, NEW u \in Customers, AgentAtFault(u) PROVE HomeInv'
<1>1. /\ UNCHANGED <<row, script>> /\ Running' = Running /\ loose' = loose \union {u}
      /\ op \in [Customers -> Op] /\ OpOK(u)
  BY DEF AgentAtFault, AgentFails, Base, TypeOK, Running
<1>2. \A v \in Customers \ {u} : op'[v] = op[v]
  BY <1>1 DEF AgentAtFault, AgentFails, NotDone, Goes, Ends
<1>3. \A v \in Customers \ {u} : Due(v)' = Due(v)
  BY <1>1, <1>2 DEF Due, Shown, HasView
<1>4. CASE op[u].step = "call" /\ UNCHANGED <<file, lock, draft>>
  <2>1. lock # u
    BY <1>1, <1>4 DEF OpOK
  <2> QED BY <1>1, <1>2, <1>3, <1>4, <2>1 DEF HomeInv
<1>5. CASE op[u].step = "write" /\ file' \in {file, draft} /\ lock' = Nobody
  <2>1. lock = u
    BY <1>1, <1>5 DEF OpOK
  <2>2. \A v \in Customers \ loose' : Homes(file', v) = Homes(file, v)
    BY <1>1, <1>5, <2>1 DEF HomeInv
  <2> QED BY <1>1, <1>3, <1>5, <2>2, EmailsAssumption DEF HomeInv, Homes
<1> QED BY <1>4, <1>5 DEF AgentAtFault, AgentFails

LEMMA HomeCleaning ==
  ASSUME Base, HomeInv, Cleaning PROVE HomeInv'
<1>1. UNCHANGED <<lock, draft, row, op>> /\ loose \subseteq loose'
      /\ script \in Script /\ file \in Config /\ lock \in Customers \union {Nobody}
  BY DEF Cleaning, ReadOriginal, MakeBackup, ReplaceConfig, TestConfig, RestoreBackup, vars, Base, TypeOK
<1>2. \A u \in Customers : Due(u)' = Due(u)
  BY <1>1 DEF Due, Shown, HasView
<1>3. CASE ReadOriginal
  <2>1. PICK tags \in SUBSET Nodes :
          /\ script' = [script EXCEPT !.step = "read", !.updated = CleanConfig(file, tags)]
          /\ loose' = loose \union ((Printed(file, tags) \union {lock}) \intersect Customers)
    BY <1>3 DEF ReadOriginal
  <2>2. file' = file
    BY <1>3 DEF ReadOriginal, vars
  <2>3. \A u \in Customers \ loose' : Homes(CleanConfig(file, tags), u) = Homes(file, u)
    BY <2>1 DEF Homes, CleanConfig, Printed
  <2>4. script'.step = "read" /\ script'.updated = CleanConfig(file, tags)
    BY <1>1, <2>1 DEF Script
  <2>5. lock \in Customers => lock \in loose'
    BY <2>1
  <2> QED BY <1>1, <1>2, <2>2, <2>3, <2>4, <2>5 DEF HomeInv
<1>4. CASE MakeBackup
  <2>1. UNCHANGED <<file, loose>> /\ script.step = "read" /\ script'.step = "saved"
        /\ script'.updated = script.updated /\ script'.backup = file
    BY <1>1, <1>4 DEF MakeBackup, vars, Script
  <2> QED BY <1>1, <1>2, <2>1 DEF HomeInv, Running
<1>5. CASE ReplaceConfig
  <2>1. loose' = loose /\ script.step = "saved" /\ script'.step = "written"
        /\ script'.backup = script.backup /\ file' = script.updated
    BY <1>1, <1>5 DEF ReplaceConfig, Script
  <2>2. \A u \in Customers \ loose : Homes(file', u) = Homes(file, u)
    BY <2>1 DEF HomeInv
  <2> QED BY <1>1, <1>2, <2>1, <2>2 DEF HomeInv, Running, Homes
<1>6. CASE TestConfig
  <2>1. UNCHANGED <<file, loose>> /\ script.step = "written"
        /\ \/ script'.step = "over"
           \/ script'.step = "refused" /\ script'.backup = script.backup
    BY <1>1, <1>6 DEF TestConfig, vars, Script, Over, NotRun
  <2> QED BY <1>1, <1>2, <2>1 DEF HomeInv, Running
<1>7. CASE RestoreBackup
  <2>1. loose' = loose /\ script.step = "refused" /\ script'.step = "over" /\ file' = script.backup
    BY <1>1, <1>7 DEF RestoreBackup, Script, Over, NotRun
  <2>2. \A u \in Customers \ loose : Homes(file', u) = Homes(file, u)
    BY <2>1 DEF HomeInv
  <2> QED BY <1>1, <1>2, <2>1, <2>2 DEF HomeInv, Running, Homes
<1> QED BY <1>3, <1>4, <1>5, <1>6, <1>7 DEF Cleaning

LEMMA HomeStep ==
  ASSUME Base, HomeInv, [Next]_allVars PROVE HomeInv'
<1>1. CASE UNCHANGED allVars
  BY <1>1 DEF allVars, vars, HomeInv, Homes, Due, Shown, HasView, Running
<1> QED BY <1>1, HomeOperation, HomeAgent, HomeFault, HomeCleaning DEF Next

\* A user whom the script did not print and whose requests neither failed nor
\* overlapped it has the client at the node the user is shown and nowhere else,
\* whatever the agents and the script write over each other.
THEOREM ShownCorrect == Spec => []ShownUnlessLoose
<1>1. HomeInv => ShownUnlessLoose
  BY DEF HomeInv, ShownUnlessLoose, HomesOf, Homes, Due, Idle
<1> QED BY <1>1, HomeInit, HomeStep, BaseCorrect, PTL DEF Spec

-----------------------------------------------------------------------------
(* What a request does to the file is what AgentContract lets a caller     *)
(* expect: NodePicker's short agent answers as XrayAgent's does.           *)

Contract == INSTANCE AgentEffects WITH
              Tags <- Nodes, Ids <- Emails, EmailOf <- [e \in Emails |-> e], Reserved <- Kept

\* What a request promises of the configuration before and after it.
TakesEffect(o, u, before, after) ==
  IF o.task \in Adding THEN Contract!Adds(o.node, u, before, after)
                       ELSE Contract!Removes(o.node, u, before, after)

\* What an agent makes of a configuration is what the contract promises.
LEMMA ChangedTakesEffect ==
  ASSUME NEW c \in Config, NEW u \in Customers, NEW o \in Op, o.node \in Nodes, ~Refused(c, o, u)
  PROVE  TakesEffect(o, u, c, Changed(c, o, u))
<1>1. u \in Emails \ Kept
  BY EmailsAssumption DEF Emails
<1>2. CASE o.task \in Adding
  <2>1. u \in Changed(c, o, u)[o.node]
    BY <1>2 DEF Changed
  <2>2. \A s \in Nodes, j \in Emails :
          j \in Changed(c, o, u)[s] <=> (s = o.node /\ j = u) \/ (j \in c[s] /\ (j # u \/ j \in Kept))
    BY <1>1, <1>2 DEF Changed
  <2> QED BY <1>1, <1>2, <2>1, <2>2 DEF TakesEffect, Contract!Adds
<1>3. CASE o.task \notin Adding
  <2>1. u \in c[o.node] \ Kept
    BY <1>1, <1>3 DEF Refused
  <2>2. \A s \in Nodes, j \in Emails :
          j \in Changed(c, o, u)[s] <=> j \in c[s] /\ ~(s = o.node /\ j = u)
    BY <1>3 DEF Changed, Config
  <2> QED BY <1>3, <2>1, <2>2 DEF TakesEffect, Contract!Removes
<1> QED BY <1>2, <1>3

\* A request the script does not overlap holds the lock while nobody else
\* writes: what it is about to write is made of the file as it still is.
FreshInv ==
  lock \in Customers \ loose =>
    /\ ~Running
    /\ ~Refused(file, op[lock], lock)
    /\ draft = Changed(file, op[lock], lock)

\* Whoever releases the lock, unless the request failed in doing so, leaves the
\* file as the request promises.
EffectStep ==
  \A u \in Customers \ (loose \union loose') :
    lock = u /\ lock' # u => TakesEffect(op[u], u, file, file')

LEMMA FreshInit == Init0 => FreshInv
BY EmailsAssumption DEF Init0, Init, FreshInv

\* A script that starts makes the holder of the lock loose, and one that runs
\* makes loose whoever takes the lock.
LEMMA FreshStep ==
  ASSUME Base, FreshInv, [Next]_allVars PROVE FreshInv'
<1> USE EmailsAssumption
<1>1. CASE UNCHANGED allVars
  BY <1>1 DEF allVars, vars, FreshInv, Running
<1>2. ASSUME NEW u \in Customers, OperationAtWork(u) PROVE FreshInv'
  <2>1. UNCHANGED <<file, lock, draft, script>> /\ loose \subseteq loose'
    BY <1>2 DEF OperationAtWork, Operation, EnsureKept, EnsureNew, Expire, Commit, CommitFails
  <2>2. op[u].step # "write"
    BY <1>2 DEF OperationAtWork, Operation, EnsureKept, EnsureNew, Expire, Commit, CommitFails, Begins, Idle
  <2>3. lock \in Customers => op'[lock] = op[lock]
    BY <1>2, <2>2 DEF Base, TypeOK, OpOK, OperationAtWork, Operation, EnsureKept, EnsureNew, Expire,
                      Commit, CommitFails, Begins, Ends
  <2> QED BY <2>1, <2>3 DEF FreshInv, Running
<1>3. ASSUME NEW u \in Customers, AgentAtWork(u) PROVE FreshInv'
  <2>1. CASE AgentReads(u) /\ Refused(file, op[u], u)
    BY <1>3, <2>1 DEF AgentReads, FreshInv
  <2>2. CASE AgentReads(u) /\ ~Refused(file, op[u], u)
    <3>1. /\ lock' = u /\ file' = file /\ draft' = Changed(file, op[u], u)
          /\ op'[u] = [op[u] EXCEPT !.step = "write"] /\ script' = script
      BY <1>3, <2>2 DEF AgentReads, AgentAtWork, Goes, Base, TypeOK
    <3>2. op[u] \in Op
      BY DEF Base, TypeOK
    <3>3. op'[u].task = op[u].task /\ op'[u].node = op[u].node
      BY <3>1, <3>2 DEF Op
    <3>4. Running => u \in loose'
      BY <1>3 DEF AgentAtWork
    <3>5. ~Refused(file', op'[u], u) /\ draft' = Changed(file', op'[u], u)
      BY <2>2, <3>1, <3>3 DEF Refused, Changed
    <3> QED BY <3>1, <3>4, <3>5 DEF FreshInv, Running
  <2>3. CASE AgentWrites(u)
    BY <2>3 DEF AgentWrites, FreshInv
  <2> QED BY <1>3, <2>1, <2>2, <2>3 DEF AgentAtWork, Agent
<1>4. ASSUME NEW u \in Customers, AgentAtFault(u) PROVE FreshInv'
  <2>1. loose \subseteq loose' /\ script' = script
    BY <1>4 DEF AgentAtFault
  <2>2. CASE op[u].step = "call" /\ UNCHANGED <<file, lock, draft>>
    <3>1. lock # u
      BY <2>2 DEF Base, OpOK
    <3>2. lock \in Customers => op'[lock] = op[lock]
      BY <1>4, <3>1 DEF AgentAtFault, AgentFails, NotDone, Goes, Ends, Base, TypeOK
    <3> QED BY <2>1, <2>2, <3>2 DEF FreshInv, Running
  <2>3. CASE lock' = Nobody
    BY <2>3 DEF FreshInv
  <2> QED BY <1>4, <2>2, <2>3 DEF AgentAtFault, AgentFails
<1>5. ASSUME Cleaning PROVE FreshInv'
  <2>1. UNCHANGED <<lock, draft, op>> /\ loose \subseteq loose' /\ script \in Script
    BY <1>5 DEF Cleaning, ReadOriginal, MakeBackup, ReplaceConfig, TestConfig, RestoreBackup, vars,
                Base, TypeOK
  <2>2. CASE ReadOriginal
    BY <2>1, <2>2 DEF ReadOriginal, FreshInv
  <2>3. CASE ~ReadOriginal
    <3>1. Running
      BY <1>5, <2>3 DEF Cleaning, MakeBackup, ReplaceConfig, TestConfig, RestoreBackup, Running
    <3> QED BY <2>1, <3>1 DEF FreshInv
  <2> QED BY <2>2, <2>3
<1> QED BY <1>1, <1>2, <1>3, <1>4, <1>5 DEF Next

\* Only the holder's own writing, or its failure, releases the lock.
LEMMA EffectHolds ==
  ASSUME Base, FreshInv, [Next]_allVars PROVE EffectStep
<1> SUFFICES ASSUME NEW u \in Customers \ (loose \union loose'), lock = u, lock' # u
             PROVE  TakesEffect(op[u], u, file, file')
  BY DEF EffectStep
<1>1. AgentWrites(u)
  <2>1. op[u].step = "write" /\ \A v \in Customers : op[v].step = "write" => v = u
    BY DEF Base, OpOK
  <2>2. PICK v \in Customers : AgentAtWork(v) \/ AgentAtFault(v)
    BY DEF Next, Cleaning, ReadOriginal, MakeBackup, ReplaceConfig, TestConfig, RestoreBackup,
           OperationAtWork, Operation, EnsureKept, EnsureNew, Expire, Commit, CommitFails, allVars, vars
  <2>3. u # Nobody
    BY EmailsAssumption
  <2>4. op[v].step = "write" => v = u
    BY <2>1
  <2>5. ~AgentAtFault(v)
    BY <2>3, <2>4 DEF AgentAtFault, AgentFails
  <2> QED BY <2>2, <2>3, <2>4, <2>5 DEF AgentAtWork, Agent, AgentReads, AgentWrites
<1>2. file' = Changed(file, op[u], u) /\ ~Refused(file, op[u], u)
  BY <1>1 DEF AgentWrites, FreshInv
<1>3. file \in Config /\ op[u] \in Op /\ op[u].node \in Nodes
  BY <1>1 DEF Base, TypeOK, OpOK, AgentWrites, Idle
<1> QED BY <1>2, <1>3, ChangedTakesEffect

\* A request that is answered, and that the script does not overlap, changes the
\* file as AgentContract promises of an agent's answer: no agent overwrites what
\* another has done.
THEOREM EffectCorrect == Spec => [][EffectStep]_allVars
<1>1. Base /\ FreshInv /\ [Next]_allVars => [EffectStep]_allVars
  BY EffectHolds
<1> QED BY <1>1, FreshInit, FreshStep, BaseCorrect, PTL DEF Spec

=============================================================================
