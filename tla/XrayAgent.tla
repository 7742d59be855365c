------------------------------ MODULE XrayAgent -------------------------------
(***************************************************************************)
(* The agents of a VPN node (xray_agent/config_service.py).  A node with   *)
(* several inbounds runs one agent for each; they are processes of their   *)
(* own that rewrite the same configuration file of Xray under a lock file, *)
(* test the result, restart Xray, and put the old file back if that fails. *)
(* An agent handles its requests one at a time: its handlers are async     *)
(* functions that call the service directly.                               *)
(*                                                                         *)
(* A configuration is the set of clients of each inbound, a client is its  *)
(* uuid, and the email goes with the uuid: the bot makes a new uuid for    *)
(* every key.  The file is replaced with os.replace, in one step.          *)
(***************************************************************************)
EXTENDS Integers, FiniteSets

CONSTANTS
  Tags,       \* inbounds; the agent of an inbound goes by its tag
  Ids,        \* uuids of clients
  EmailOf,    \* the email of a client
  Reserved,   \* clients of the administrator (AGENT_RESERVED_*)
  MaxUsers,   \* xray_max_users, for each inbound
  Nobody,     \* the holder of a lock that is free
  NoRequest,  \* the request of an idle agent
  Down,       \* what runs while Xray does not
  Faults      \* what may fail: "disk", "test", "reload", "uri", "crash"

ASSUME ReservedAssumption == Reserved \subseteq Ids
ASSUME MaxUsersAssumption == MaxUsers \in Nat
ASSUME NobodyAssumption   == Nobody \notin Tags
ASSUME IdsAssumption      == IsFiniteSet(Ids)
ASSUME DownAssumption     == Down \notin [Tags -> SUBSET Ids]
ASSUME RequestAssumption  == NoRequest \notin [kind: {"add", "remove"}, id: Ids]
ASSUME FaultsAssumption   == Faults \subseteq {"disk", "test", "reload", "uri", "crash"}

VARIABLES
  file,      \* the configuration file
  running,   \* the configuration Xray has loaded
  lock,      \* the lock file, named after the agent that made it
  op,        \* what each agent is doing
  answer     \* the last answer of each agent

vars == <<file, running, lock, op, answer>>

Config   == [Tags -> SUBSET Ids]
Requests == [kind: {"add", "remove"}, id: Ids]
Held     == {"write", "test", "reload", "restore", "done", "refused", "botched"}
Step     == {"idle", "lock"} \union Held

\* next is the configuration to be written, original the one it replaced.
Op == [step: Step, request: Requests \union {NoRequest}, next: Config, original: Config]

Empty == [t \in Tags |-> {}]
Idle  == [step |-> "idle", request |-> NoRequest, next |-> Empty, original |-> Empty]

Init ==
  /\ file \in [Tags -> SUBSET Reserved]
  /\ running = file
  /\ lock = Nobody
  /\ op = [t \in Tags |-> Idle]
  /\ answer = [t \in Tags |-> "none"]

Becomes(t, next) == op' = [op EXCEPT ![t] = next]
Goes(t, step)    == op' = [op EXCEPT ![t].step = step]
Ends(t, result)  == Becomes(t, Idle) /\ answer' = [answer EXCEPT ![t] = result]

\* Xray refuses a configuration that has an email twice.
Accepted(c) ==
  \A s, t \in Tags : \A i \in c[s], j \in c[t] :
    EmailOf[i] = EmailOf[j] => s = t /\ i = j

-----------------------------------------------------------------------------
(* add_user and remove_user on the configuration that was read.            *)

Twins(c, t, i) == {j \in c[t] : EmailOf[j] = EmailOf[i]}

\* The client to update: found by its uuid, or else by its email.
Existing(c, t, i) == IF i \in c[t] THEN {i} ELSE Twins(c, t, i)

Paying(c, t) == c[t] \ Reserved

\* ReservedUserError, UserLimitReached and UserNotFound.
Refused(c, t, r) ==
  LET existing == Existing(c, t, r.id) IN
  IF r.kind = "add"
  THEN \/ existing \cap Reserved # {}
       \/ existing = {} /\ Cardinality(Paying(c, t)) >= MaxUsers
  ELSE r.id \notin c[t] \ Reserved

\* Mutant: the other inbounds are left as they are.
ChangedHere(c, t, r) ==
  IF r.kind = "add"
  THEN [c EXCEPT ![t] = (@ \ Existing(c, t, r.id)) \union {r.id}]
  ELSE [c EXCEPT ![t] = @ \ {r.id}]

\* The email is removed from the other inbounds, reserved clients excepted.
Changed(c, t, r) ==
  IF r.kind = "add"
  THEN [s \in Tags |-> IF s = t
                       THEN (c[s] \ Existing(c, s, r.id)) \union {r.id}
                       ELSE c[s] \ (Twins(c, s, r.id) \ Reserved)]
  ELSE [c EXCEPT ![t] = @ \ {r.id}]

-----------------------------------------------------------------------------
(* The steps of an agent.                                                  *)

\* A request arrives: POST /add_user or /remove_user.
Receive(t) ==
  /\ op[t] = Idle
  /\ \E r \in Requests : Becomes(t, [Idle EXCEPT !.step = "lock", !.request = r])
  /\ answer' = [answer EXCEPT ![t] = "none"]
  /\ UNCHANGED <<file, running, lock>>

\* The lock file is created, the configuration read, changed in memory.
Acquire(t) ==
  /\ op[t].step = "lock"
  /\ lock = Nobody
  /\ lock' = t
  /\ IF Refused(file, t, op[t].request)
     THEN Goes(t, "refused")
     ELSE Becomes(t, [op[t] EXCEPT !.step = "write",
                                   !.next = Changed(file, t, op[t].request)])
  /\ UNCHANGED <<file, running, answer>>

\* Mutant: there is no time limit.
WaitForever(t) ==
  /\ op[t].step = "lock"
  /\ lock # Nobody
  /\ UNCHANGED vars

\* Mutant: after the time limit the agent goes on without the lock.
GoOnUnlocked(t) ==
  /\ op[t].step = "lock"
  /\ lock # Nobody
  /\ ~Refused(file, t, op[t].request)
  /\ Becomes(t, [op[t] EXCEPT !.step = "write",
                             !.next = Changed(file, t, op[t].request)])
  /\ UNCHANGED <<file, running, lock, answer>>

\* The lock is not free for ten seconds: ConfigError.
GiveUp(t) ==
  /\ op[t].step = "lock"
  /\ lock # Nobody
  /\ Ends(t, "error")
  /\ UNCHANGED <<file, running, lock>>

\* The file is read once more, to be restored if need be, and replaced; the
\* new content may fail to be written to its temporary file.
Write(t) ==
  /\ op[t].step = "write"
  /\ \/ /\ file' = op[t].next
        /\ Becomes(t, [op[t] EXCEPT !.step = "test", !.next = Empty, !.original = file])
     \/ "disk" \in Faults /\ Goes(t, "refused") /\ UNCHANGED file
  /\ UNCHANGED <<running, lock, answer>>

\* Mutant: the lock covers the change of the file only.
TestUnlocked(t) ==
  /\ op[t].step = "test"
  /\ Accepted(file)
  /\ Goes(t, "reload")
  /\ lock' = Nobody
  /\ UNCHANGED <<file, running, answer>>

\* xray run -test; it may also not end in time.
TestConfig(t) ==
  /\ op[t].step = "test"
  /\ \/ Accepted(file) /\ Goes(t, "reload")
     \/ ~Accepted(file) /\ Goes(t, "restore")
     \/ "test" \in Faults /\ Goes(t, "restore")
  /\ UNCHANGED <<file, running, lock, answer>>

\* systemctl restart xray; after an error or a timeout Xray may have been
\* restarted, not yet, or be down.
Reload(t) ==
  /\ op[t].step = "reload"
  /\ \/ running' = file /\ Goes(t, "done")
     \/ /\ "reload" \in Faults
        /\ running' \in {running, file, Down}
        /\ Goes(t, "restore")
  /\ UNCHANGED <<file, lock, answer>>

\* The original is written back; Xray is not restarted.
Restore(t) ==
  /\ op[t].step = "restore"
  /\ \/ file' = op[t].original /\ Goes(t, "refused")
     \/ "disk" \in Faults /\ Goes(t, "botched") /\ UNCHANGED file
  /\ UNCHANGED <<running, lock, answer>>

\* build_connection_uri raises a ConfigError: REALITY_PUBLIC_KEY is not set.
UriFails == "uri" \in Faults

\* The lock file is removed and the request answered.  Success needs the
\* connection URI.
Answer(t) ==
  /\ op[t].step \in {"done", "refused", "botched"}
  /\ lock' = Nobody
  /\ \E result \in {"ok", "error"} :
       /\ result = "ok" => op[t].step = "done"
       /\ result = "error" => op[t].step # "done" \/ UriFails
       /\ Ends(t, result)
  /\ UNCHANGED <<file, running>>

\* The agent's process dies and is started again; its lock file stays.
Crash(t) ==
  /\ "crash" \in Faults
  /\ op[t] # Idle
  /\ Becomes(t, Idle)
  /\ UNCHANGED <<file, running, lock, answer>>

\* systemd starts Xray again, or the machine reboots: the file is loaded, be
\* it tested or not.
Restart ==
  /\ running' = IF Accepted(file) THEN file ELSE Down
  /\ UNCHANGED <<file, lock, op, answer>>

Proceed(t) ==
  \/ Acquire(t)
  \/ GiveUp(t)
  \/ Write(t)
  \/ TestConfig(t)
  \/ Reload(t)
  \/ Restore(t)
  \/ Answer(t)

Next ==
  \/ \E t \in Tags : Receive(t) \/ Proceed(t) \/ Crash(t)
  \/ Restart

Spec == Init /\ [][Next]_vars

\* An agent that is not stopped goes on: waiting for the lock and the commands
\* have time limits.
FairSpec == Spec /\ \A t \in Tags : WF_vars(Proceed(t))

-----------------------------------------------------------------------------
(* Properties.                                                             *)

\* Every variable stays within its type.
TypeOK ==
  /\ file \in Config
  /\ running \in Config \union {Down}
  /\ lock \in Tags \union {Nobody}
  /\ op \in [Tags -> Op]
  /\ answer \in [Tags -> {"none", "ok", "error"}]

\* "Xray rejects duplicate emails across inbounds in one config": however the
\* agents of the inbounds interleave, fail and crash, no file they write has
\* two paying clients with one email.
OneClientPerEmail ==
  \A s, t \in Tags : \A i \in Paying(file, s), j \in Paying(file, t) :
    EmailOf[i] = EmailOf[j] => s = t /\ i = j

\* An inbound never has more paying clients than xray_max_users, although a
\* restored file undoes removals and the other agents remove clients too.
WithinLimit == \A t \in Tags : Cardinality(Paying(file, t)) <= MaxUsers

\* At the moment an operation succeeds Xray runs exactly the file, so that no
\* other agent got between the writing of the file and the restart.
SuccessIsRunning == \A t \in Tags : op[t].step = "done" => running = file

\* The contract's view: until Xray has accepted a file, the previous one counts.
Pending(t) == op[t].step \in {"test", "reload", "restore"}
Clients == IF \E t \in Tags : Pending(t)
           THEN op[CHOOSE t \in Tags : Pending(t)].original ELSE file
Phase(t) == CASE op[t].step = "idle"                -> "idle"
              [] op[t].step \in {"done", "botched"} -> "carried"
              [] OTHER                              -> "called"

Contract == INSTANCE AgentContract WITH
  clients <- Clients,
  request <- [t \in Tags |-> op[t].request],
  phase   <- [t \in Tags |-> Phase(t)]

\* Agents that share a file lose no update of each other, never mix two
\* operations, and report success only of what they have carried out.
ImplementsContract == Contract!Spec

\* Reserved clients survive every operation, on every inbound.
ReservedStay ==
  [][\A t \in Tags : Clients[t] \cap Reserved \subseteq Clients'[t]]_vars

\* Every request is answered, unless the agent dies, whether the others work,
\* wait, or have died with the lock in their hands.
EveryRequestEnds ==
  \A t \in Tags : op[t] # Idle ~> op[t] = Idle

=============================================================================
