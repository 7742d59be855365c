------------------------------- MODULE KeyBook -------------------------------
(***************************************************************************)
(* What the life of VPN keys promises, without tables, agents' files,      *)
(* subscriptions, overlap and faults: a uuid is drawn for one user, who    *)
(* keeps it through everything; it stops and starts to answer; and it is   *)
(* replaced only for a user of the site, after it has stopped, and then    *)
(* for good.                                                               *)
(***************************************************************************)

CONSTANTS
  Users,
  WebUsers,   \* those who may ask for a new key
  Keys,
  NoKey

VARIABLES
  key,        \* the uuid of each user
  answers,    \* the uuid under which each user is let in
  drawn,      \* uuids drawn so far
  dead        \* uuids that were replaced

book == <<key, answers, drawn, dead>>

Init ==
  /\ key = [u \in Users |-> NoKey]
  /\ answers = [u \in Users |-> NoKey]
  /\ drawn = {}
  /\ dead = {}

\* Nobody but u has to do with k.
OnlyFor(u, k) == \A v \in Users \ {u} : key[v] # k /\ answers[v] # k

\* A new uuid, which may answer at once.
Draw(u, k) ==
  /\ k \in Keys \ drawn
  /\ drawn' = drawn \union {k}
  /\ answers' \in {answers, [answers EXCEPT ![u] = k]}
  /\ UNCHANGED <<key, dead>>

\* The first key of a user.
Issue(u, k) ==
  /\ key[u] = NoKey
  /\ k \in drawn \ dead
  /\ OnlyFor(u, k)
  /\ key' = [key EXCEPT ![u] = k]
  /\ UNCHANGED <<answers, drawn, dead>>

\* A new key for the old one, which does not answer any more.
Replace(u, k) ==
  /\ u \in WebUsers
  /\ key[u] # NoKey /\ answers[u] # key[u]
  /\ k \in drawn \ dead /\ k # key[u]
  /\ OnlyFor(u, k)
  /\ key' = [key EXCEPT ![u] = k]
  /\ dead' = dead \union {key[u]}
  /\ UNCHANGED <<answers, drawn>>

\* Only a user's own key is switched on.
Connect(u) ==
  /\ key[u] # NoKey
  /\ answers' = [answers EXCEPT ![u] = key[u]]
  /\ UNCHANGED <<key, drawn, dead>>

\* Only one user is switched off.
Disconnect(u) ==
  /\ answers' = [answers EXCEPT ![u] = NoKey]
  /\ UNCHANGED <<key, drawn, dead>>

Next == \E u \in Users :
          \/ \E k \in Keys : Draw(u, k) \/ Issue(u, k) \/ Replace(u, k)
          \/ Connect(u)
          \/ Disconnect(u)

Spec == Init /\ [][Next]_book

=============================================================================
