----------------------------- MODULE AgentEffects -----------------------------
(***************************************************************************)
(* What an operation of an agent does to the clients of a VPN node, once   *)
(* it is carried out: what AgentContract promises of a single call.        *)
(***************************************************************************)
CONSTANTS Tags, Ids, EmailOf, Reserved

\* The client is in the inbound, and nobody else keeps its email but clients
\* that the administrator reserved.
Adds(t, i, before, after) ==
  /\ i \in after[t]
  /\ \A s \in Tags, j \in Ids :
       j \in after[s] <=> \/ s = t /\ j = i
                          \/ j \in before[s] /\ (EmailOf[j] # EmailOf[i] \/ j \in Reserved)

Removes(t, i, before, after) ==
  /\ i \in before[t] \ Reserved
  /\ \A s \in Tags, j \in Ids :
       j \in after[s] <=> j \in before[s] /\ ~(s = t /\ j = i)

=============================================================================
