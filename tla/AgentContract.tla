---------------------------- MODULE AgentContract -----------------------------
(***************************************************************************)
(* What the agents of a VPN node promise to the bot, the site and the      *)
(* monitor, which call them from other processes: an operation answered    *)
(* with success was carried out, completely and on top of everything that  *)
(* was carried out before; one answered with an error, or never answered,  *)
(* was carried out completely or not at all.                               *)
(***************************************************************************)
EXTENDS AgentEffects   \* Tags, Ids, EmailOf, Reserved

CONSTANT NoRequest

VARIABLES
  clients,   \* clients of each inbound
  request,   \* what each agent was asked for
  phase,     \* "idle"; "called"; "carried" out
  answer     \* each agent's last answer

vars == <<clients, request, phase, answer>>

Requests == [kind: {"add", "remove"}, id: Ids]

\* What it means that the request r of agent t is carried out.
Effect(t, r, before, after) ==
  IF r.kind = "add" THEN Adds(t, r.id, before, after) ELSE Removes(t, r.id, before, after)

-----------------------------------------------------------------------------
Init ==
  /\ clients \in [Tags -> SUBSET Reserved]
  /\ request = [t \in Tags |-> NoRequest]
  /\ phase = [t \in Tags |-> "idle"]
  /\ answer = [t \in Tags |-> "none"]

Call(t) ==
  /\ phase[t] = "idle"
  /\ phase' = [phase EXCEPT ![t] = "called"]
  /\ \E r \in Requests : request' = [request EXCEPT ![t] = r]
  /\ answer' = [answer EXCEPT ![t] = "none"]
  /\ UNCHANGED clients

Carry(t) ==
  /\ phase[t] = "called"
  /\ phase' = [phase EXCEPT ![t] = "carried"]
  /\ clients' \in [Tags -> SUBSET Ids]
  /\ Effect(t, request[t], clients, clients')
  /\ UNCHANGED <<request, answer>>

Succeed(t) ==
  /\ phase[t] = "carried"
  /\ phase' = [phase EXCEPT ![t] = "idle"]
  /\ answer' = [answer EXCEPT ![t] = "ok"]
  /\ request' = [request EXCEPT ![t] = NoRequest]
  /\ UNCHANGED clients

Fail(t) ==
  /\ phase[t] # "idle"
  /\ phase' = [phase EXCEPT ![t] = "idle"]
  /\ answer' = [answer EXCEPT ![t] = "error"]
  /\ request' = [request EXCEPT ![t] = NoRequest]
  /\ UNCHANGED clients

\* The agent dies; the operation it was at may have been carried out.
Die(t) ==
  /\ phase[t] # "idle"
  /\ phase' = [phase EXCEPT ![t] = "idle"]
  /\ \/ UNCHANGED clients
     \/ /\ phase[t] = "called"
        /\ clients' \in [Tags -> SUBSET Ids]
        /\ Effect(t, request[t], clients, clients')
  /\ request' = [request EXCEPT ![t] = NoRequest]
  /\ UNCHANGED answer

Next == \E t \in Tags : Call(t) \/ Carry(t) \/ Succeed(t) \/ Fail(t) \/ Die(t)

Spec == Init /\ [][Next]_vars

=============================================================================
