------------------------------ MODULE KeyHistory ------------------------------
(***************************************************************************)
(* VpnKeys with a history: for which users something has come in the way   *)
(* of an operation on their key.  Operations on one user are not           *)
(* serialised by the code and the agent may fail, and then a client may be *)
(* left that the database does not know as working; a user who was spared  *)
(* both is not harmed by what happens to others, whatever that is.         *)
(***************************************************************************)
EXTENDS VpnKeys

VARIABLE troubled   \* users for whom it has

historyVars == <<vars, troubled>>

\* The same system with an agent that always answers and processes that live;
\* commits may fail.
Sound == INSTANCE VpnKeys WITH Faults <- Faults \intersect {"commit"}

\* Two of workers, expiry job and monitor are at work on u's key.
Crossed(u) ==
  \/ \E v, w \in Workers : v # w /\ op[v].user = u /\ op[w].user = u
  \/ \E w \in Workers : op[w].user = u /\ (sweep.rows[u] # NoKey \/ u \in poll.bad)
  \/ sweep.rows[u] # NoKey /\ u \in poll.bad

\* The step goes on with u as none does while the agent answers and nothing dies.
Failed(u) ==
  \/ \E w \in Workers : /\ op[w].user = u
                        /\ op[w].step # "start"
                        /\ op'[w] # op[w]
                        /\ ~Sound!Proceed(w)
  \/ u \in sweep.left \ sweep'.left /\ ~Sound!ExpireRevoke(u)
  \/ u \in poll.left \ poll'.left /\ ~Sound!SuspendDevice(u)

HistoryInit == Init /\ troubled = {}

Noted == troubled' = troubled \union {u \in Users : Crossed(u)' \/ Failed(u)}

\* The steps of Next, noted.
HistoryNext ==
  \/ \E u \in Users, p \in Products : Activate(u, p) /\ Noted
  \/ \E s \in DOMAIN subs : Lapse(s) /\ Noted
  \/ NoSubscription /\ Noted
  \/ \E u \in Users : RegenerateVpnKey(u) /\ Noted
  \/ \E w \in Workers, u \in Users : EnsureVpnKey(w, u) /\ Noted
  \/ \E w \in Workers : \/ SyncDeviceToXray(w) /\ Noted
                        \/ RestoreVpnDevice(w) /\ Noted
                        \/ RestoreCommit(w) /\ Noted
                        \/ CreateVpnDevice(w) /\ Noted
                        \/ CreateCommit(w) /\ Noted
                        \/ UndoProvision(w) /\ Noted
                        \/ RevokeOldKey(w) /\ Noted
                        \/ DeleteOldRow(w) /\ Noted
                        \/ Crash(w) /\ Noted
  \/ ExpireLoad /\ Noted
  \/ \E u \in Users : ExpireRevoke(u) /\ Noted
  \/ ExpireCommit /\ Noted
  \/ ExpireCrash /\ Noted
  \/ PollLoad /\ Noted
  \/ \E u \in Users : SuspendDevice(u) /\ Noted
  \/ PollCommit /\ Noted
  \/ PollCrash /\ Noted

HistorySpec == HistoryInit /\ [][HistoryNext]_historyVars

\* The same with what the processes guarantee and the users do.
AskingSpec == HistorySpec /\ Fairness /\ Asking

-----------------------------------------------------------------------------
(* Properties.                                                             *)

\* A client of Xray carries the uuid of the user's active row, or an operation
\* has provisioned it and has yet to store it or take it back: no failed or
\* undone creation, restoration or regeneration, no batch of the expiry job or
\* of the monitor, committed or not, leaves a working key behind that the
\* database does not hold as working.  Not so for users whom two worked on at
\* a time or with whom the agent or a process failed; but what happened to
\* others, in the same batch or the same process, does not matter.
NoOrphanClient ==
  \A u \in Users \ troubled : xray[u] # NoKey =>
    \/ device[u].status = "active" /\ device[u].uuid = xray[u]
    \/ \E w \in Workers : op[w].user = u /\ op[w].step \in {"restored", "created", "undo"}

\* When an operation that returns a key to such a user ends, that key is the one
\* of the user's active row, works in Xray, and the row belongs to the newest
\* VPN subscription of the user.
DeliveredKeyWorks ==
  [][\A w \in Workers :
       LET u == op[w].user IN
       /\ op[w].step \in {"sync", "restored", "created"}
       /\ op'[w] = Idle
       /\ u \notin troubled'
       => /\ device'[u].status = "active"
          /\ xray'[u] = device'[u].uuid
          /\ \A t \in DOMAIN subs' :
               subs'[t].user = u /\ subs'[t].product \in VpnLine
               => t <= device'[u].sub]_historyVars

=============================================================================
