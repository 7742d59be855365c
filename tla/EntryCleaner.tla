----------------------------- MODULE EntryCleaner -----------------------------
(***************************************************************************)
(* scripts/clean_entry_clients.py at work on an entry server in operation. *)
(* The administrator runs it after the database was wiped: it takes all    *)
(* clients but the administrator's out of Xray's configuration.  It reads  *)
(* the file, prints what it is going to remove, copies the file to a       *)
(* backup, replaces it, has Xray test it and puts the backup back if the   *)
(* test fails.  It does not know the agents' lock, so the agents' changes  *)
(* (NodePicker) fall between these steps, and its steps fall between an    *)
(* agent's reading and writing.                                            *)
(*                                                                         *)
(* --list and a run without --apply only read.  The restart at the end     *)
(* makes Xray load the file; what Xray has loaded is in XrayAgent.  Whom   *)
(* it keeps is given on its command line and need not be whom the agents   *)
(* take for the administrator's; without any it warns and removes all.     *)
(***************************************************************************)
EXTENDS NodePicker

CONSTANTS
  Spared,       \* emails the script keeps: --keep-email and the like, may be none
  TestMayFail   \* whether xray -test may refuse the new file, or be missing

VARIABLES
  script,  \* the one run of the script
  loose    \* history: users whose client was printed for removal, or whose
           \* request to an agent failed or overlapped the run, or whose expiry
           \* was not stored

allVars == <<vars, script, loose>>

Script == [step: {"off", "read", "saved", "written", "refused", "over"},
           updated: Config, backup: Config]

NotRun == [step |-> "off", updated |-> Empty, backup |-> Empty]
Over   == [NotRun EXCEPT !.step = "over"]

Running == script.step \in {"read", "saved", "written", "refused"}

Init0 == Init /\ script = NotRun /\ loose = {}

-----------------------------------------------------------------------------
(* The script.                                                             *)

\* Mutant: an inbound that is cleaned is emptied.
EmptyConfig(c, tags) == [n \in Nodes |-> IF n \in tags THEN {} ELSE c[n]]

\* Mutant: --inbound is forgotten when the new file is made.
CleanEverything(c, tags) == [n \in Nodes |-> c[n] \intersect Spared]

\* Of the inbounds asked for, only those to be kept stay.
CleanConfig(c, tags) == [n \in Nodes |-> IF n \in tags THEN c[n] \intersect Spared ELSE c[n]]

Printed(c, tags) == UNION {c[n] \ Spared : n \in tags}

\* The file is read; nothing to remove ends the run.  By default all inbounds
\* are cleaned, --inbound names some.
ReadOriginal ==
  /\ script.step = "off"
  /\ \E tags \in (SUBSET Nodes) \ {{}} :
       /\ Printed(file, tags) # {}
       /\ script' = [script EXCEPT !.step = "read", !.updated = CleanConfig(file, tags)]
       /\ loose' = loose \union ((Printed(file, tags) \union {lock}) \intersect Customers)
  /\ UNCHANGED vars

\* The backup is a copy of the file as it is by now.
MakeBackup ==
  /\ script.step = "read"
  /\ script' = [script EXCEPT !.step = "saved", !.backup = file]
  /\ UNCHANGED <<vars, loose>>

ReplaceConfig ==
  /\ script.step = "saved"
  /\ file' = script.updated
  /\ script' = [script EXCEPT !.step = "written"]
  /\ UNCHANGED <<lock, draft, row, op, excused, loose>>

\* xray run -test, on the file as it is by now.  If the command cannot be
\* started the script ends here too, and the new file stays.
TestConfig ==
  /\ script.step = "written"
  /\ \/ script' = Over
     \/ TestMayFail /\ script' = [script EXCEPT !.step = "refused"]
  /\ UNCHANGED <<vars, loose>>

\* The copy is made in place; that somebody reads half of it is left out.
RestoreBackup ==
  /\ script.step = "refused"
  /\ file' = script.backup
  /\ script' = Over
  /\ UNCHANGED <<lock, draft, row, op, excused, loose>>

Cleaning == ReadOriginal \/ MakeBackup \/ ReplaceConfig \/ TestConfig \/ RestoreBackup

-----------------------------------------------------------------------------
(* The script and the operations together.                                 *)

\* A client that is added while the script is not running is in order again.
AgentAtWork(u) ==
  /\ Agent(u)
  /\ loose' = IF Running THEN loose \union {u}
              ELSE IF op[u].step = "write" /\ op[u].task \in Adding THEN loose \ {u}
              ELSE loose
  /\ UNCHANGED script

AgentAtFault(u) ==
  /\ AgentFails(u)
  /\ loose' = loose \union {u}
  /\ UNCHANGED script

\* An expiry whose commit fails leaves a row without a client.
OperationAtWork(u) ==
  /\ Operation(u)
  /\ loose' = IF op[u].task = "expire" /\ row' = row THEN loose \union {u} ELSE loose
  /\ UNCHANGED script

Next == \/ \E u \in Customers : AgentAtWork(u) \/ AgentAtFault(u) \/ OperationAtWork(u)
        \/ Cleaning

Spec == Init0 /\ [][Next]_allVars

-----------------------------------------------------------------------------
(* Properties.                                                             *)

\* A node never has more active rows than max_users, apart from rows that came
\* back to it after they had expired, and rows whose node was picked while
\* another row was on its way there (both counted before either was inserted).
LimitUnlessOverlap ==
  \A n \in Nodes : Cardinality(ActiveOn(n) \ excused) <= MaxUsers[n]

\* The nodes that have a client with the email of u in the file.
HomesOf(u) == {n \in Nodes : u \in file[n]}

\* The bot and the cabinet show an active row, with the host and the port of its
\* node.
HasView(u) == row[u].status = "active"
Shown(u)   == IF HasView(u) THEN {row[u].node} ELSE {}

\* While nobody works on a user, Xray's configuration has the user's client
\* at the node the user is shown, and nowhere else, whatever the agents and the
\* script write over each other: unless the script printed it for removal, a
\* request of this very user failed or overlapped the run, or an expiry was not
\* stored, and then only until the next successful request.
ShownUnlessLoose ==
  \A u \in Customers \ loose : op[u] = Idle => HomesOf(u) = Shown(u)

\* An agent turns a new key away from the node that was picked for it only if
\* the node has a client that no active row accounts for, or a row beyond its
\* limit: the picker counts rows and the agent counts clients.
RefusalExplained ==
  \A u \in Customers :
    op[u].task = "create" /\ op[u].step = "call" /\ Refused(file, op[u], u) =>
      LET n == op[u].node IN
      \/ Paying(file, n) \ ActiveOn(n) # {}
      \/ u \in excused \/ ActiveOn(n) \intersect excused # {}

\* The clients that the administrator keeps stay where they are, whatever the
\* script and the agents write over each other.
KeptStay ==
  [][\A n \in Nodes, e \in Spared \ Customers : e \in file'[n] <=> e \in file[n]]_allVars

\* Every variable stays within its type.
TypeOK ==
  /\ file \in Config /\ draft \in Config
  /\ lock \in Customers \union {Nobody}
  /\ row \in [Customers -> Row]
  /\ op \in [Customers -> Op]
  /\ excused \subseteq Customers /\ loose \subseteq Customers
  /\ script \in Script

=============================================================================
