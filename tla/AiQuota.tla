-------------------------------- MODULE AiQuota --------------------------------
(***************************************************************************)
(* The free messages of the AI chat (bot/ai_service.py), their counter in  *)
(* table ai_daily_usage, and the attempts at an answer over several API    *)
(* keys and proxies (netagent_common/openai_client.py).                    *)
(*                                                                         *)
(* Every message runs complete_message in a thread of its own; aiogram     *)
(* does not wait for one message before it handles the next, so messages   *)
(* of one user overlap.  The counter is read twice and written back        *)
(* without a lock.  Users share nothing but the list of keys: there is     *)
(* one user here.                                                          *)
(***************************************************************************)
EXTENDS Naturals, Sequences, FiniteSets, Functions

CONSTANTS
  Messages,    \* what the user writes in the chat
  Limit,       \* free_daily_limit
  ApiKeys,     \* the OpenAI keys, in order
  Proxies,     \* the proxies, in order, or the direct connection alone
  MaxDay,      \* bound: days
  MaxInFlight, \* bound: messages handled at the same time
  Faults       \* what may fail: "openai", "garbled", "commit", "restart"

ASSUME LimitAssumption   == Limit \in Nat \ {0}
ASSUME KeysAssumption    == ApiKeys \in Seq(STRING) /\ Len(ApiKeys) > 0
ASSUME ProxiesAssumption == Proxies \in Seq(STRING) /\ Len(Proxies) > 0
ASSUME MessageAssumption == IsFiniteSet(Messages)
ASSUME BoundAssumption   == MaxDay \in Nat \ {0} /\ MaxInFlight \in Nat
ASSUME FaultsAssumption  == Faults \subseteq {"openai", "garbled", "commit", "restart"}

VARIABLES
  today,     \* the date in the bot's time zone
  entitled,  \* has an AI subscription that is active and not over
  known,     \* has a row in table users
  count,     \* message_count by day, 0 if there is no row
  msg,       \* what became of each message
  clash      \* history: days on which countings of two messages overlapped

vars == <<today, entitled, known, count, msg, clash>>

Days == 1..MaxDay

\* Each key over each proxy.
Route  == STRING \X STRING
Routes == Range(Proxies) \X Range(ApiKeys)

\* lost: the bot was restarted, or complete_message raised what its caller does
\* not expect; the user gets no reply.
Step == {"new", "counting", "committing", "asking", "answered", "refused", "failed", "lost"}

\* free: it counts; creates: it found no row in users; read: message_count as
\* read before the increment; asked: it was committed and goes on to OpenAI;
\* left and tried: routes to OpenAI.
Msg == [step: Step, day: 0..MaxDay, free: BOOLEAN, creates: BOOLEAN, read: Nat,
        asked: BOOLEAN, left: Seq(Route), tried: SUBSET Route]

New == [step |-> "new", day |-> 0, free |-> FALSE, creates |-> FALSE, read |-> 0,
        asked |-> FALSE, left |-> <<>>, tried |-> {}]

Init ==
  /\ today = 1
  /\ entitled \in BOOLEAN
  /\ known = entitled
  /\ count = [d \in Days |-> 0]
  /\ msg = [m \in Messages |-> New]
  /\ clash = {}

-----------------------------------------------------------------------------
(* Around the chat.                                                        *)

Midnight ==
  /\ today < MaxDay
  /\ today' = today + 1
  /\ UNCHANGED <<entitled, known, count, msg, clash>>

\* A subscription, which needs a row in users, is bought or ends.
SubscriptionChanges ==
  /\ entitled' = ~entitled
  /\ known' = TRUE
  /\ UNCHANGED <<today, count, msg, clash>>

\* The bot's process ends with all that it was doing.
InFlight == {m \in Messages : msg[m].step \in {"counting", "committing", "asking"}}
Restart ==
  /\ "restart" \in Faults
  /\ msg' = [m \in Messages |->
               IF m \in InFlight THEN [msg[m] EXCEPT !.step = "lost", !.left = <<>>] ELSE msg[m]]
  /\ UNCHANGED <<today, entitled, known, count, clash>>

-----------------------------------------------------------------------------
(* complete_message: the counter.                                          *)

Counting(m) == msg[m].step \in {"counting", "committing"} /\ msg[m].free

\* Free messages of day d whose commit has succeeded.
Asked(d) == {m \in Messages : msg[m].free /\ msg[m].day = d /\ msg[m].asked}

Moves(m, to) == msg' = [msg EXCEPT ![m].step = to]

\* The first transaction up to the check of the limit: user, subscription, date
\* and counter are read.
Begin(m) ==
  LET begun == [New EXCEPT !.day = today, !.free = ~entitled, !.creates = ~known] IN
  /\ msg[m].step = "new"
  /\ Cardinality(InFlight) < MaxInFlight
  /\ msg' = [msg EXCEPT ![m] =
               [begun EXCEPT !.step =
                  IF entitled THEN "committing"
                  ELSE IF count[today] >= Limit THEN "refused" ELSE "counting"]]
  /\ clash' = IF ~entitled /\ \E n \in Messages : Counting(n) /\ msg[n].day = today
              THEN clash \union {today} ELSE clash
  /\ UNCHANGED <<today, entitled, known, count>>

\* _increment_usage queries the row again; the one of the check is forgotten.
IncrementUsage(m) ==
  /\ msg[m].step = "counting"
  /\ msg' = [msg EXCEPT ![m].step = "committing", ![m].read = count[msg[m].day]]
  /\ UNCHANGED <<today, entitled, known, count, clash>>

\* Users have one row by telegram_id, and days one by user and date.
Conflict(m) ==
  \/ msg[m].creates /\ known
  \/ msg[m].free /\ msg[m].read = 0 /\ count[msg[m].day] # 0

\* _key_order and ProxyRotator.cycle: all, from any start, as the index that
\* tells where is moved on by all threads without a lock.
Rotation(s, start) == SubSeq(s, start + 1, Len(s)) \o SubSeq(s, 1, start)

\* Mutant: what is before the start is left out.
RoutesFromStart(i, j) ==
  LET ps == Rotation(Proxies, i)
      ks == SubSeq(ApiKeys, j + 1, Len(ApiKeys))
  IN  [n \in 1..(Len(ps) * Len(ks)) |->
         <<ps[((n - 1) \div Len(ks)) + 1], ks[((n - 1) % Len(ks)) + 1]>>]

\* Every key over the first proxy, then over the next.
RouteOrder(i, j) ==
  LET ps == Rotation(Proxies, i)
      ks == Rotation(ApiKeys, j)
  IN  [n \in 1..(Len(ps) * Len(ks)) |->
         <<ps[((n - 1) \div Len(ks)) + 1], ks[((n - 1) % Len(ks)) + 1]>>]

\* Mutant: the day is asked for again when the row is written.
CommitToday(m) ==
  /\ msg[m].step = "committing"
  /\ ~Conflict(m)
  /\ \E i \in 0..(Len(Proxies) - 1), j \in 0..(Len(ApiKeys) - 1) :
       msg' = [msg EXCEPT ![m].step = "asking", ![m].asked = TRUE, ![m].left = RouteOrder(i, j)]
  /\ count' = IF msg[m].free THEN [count EXCEPT ![today] = msg[m].read + 1] ELSE count
  /\ known' = TRUE
  /\ UNCHANGED <<today, entitled, clash>>

\* Mutant: with a row of the user still to be created nothing is counted.
CommitUserOnly(m) ==
  /\ msg[m].step = "committing"
  /\ ~Conflict(m)
  /\ \E i \in 0..(Len(Proxies) - 1), j \in 0..(Len(ApiKeys) - 1) :
       msg' = [msg EXCEPT ![m].step = "asking", ![m].asked = TRUE, ![m].left = RouteOrder(i, j)]
  /\ count' = IF msg[m].free /\ ~msg[m].creates
              THEN [count EXCEPT ![msg[m].day] = msg[m].read + 1] ELSE count
  /\ known' = TRUE
  /\ UNCHANGED <<today, entitled, clash>>

\* The commit: the value read plus one, whatever is there by now.  Then, without
\* a transaction, OpenAI is asked.
Commit(m) ==
  /\ msg[m].step = "committing"
  /\ ~Conflict(m)
  /\ \E i \in 0..(Len(Proxies) - 1), j \in 0..(Len(ApiKeys) - 1) :
       msg' = [msg EXCEPT ![m].step = "asking", ![m].asked = TRUE, ![m].left = RouteOrder(i, j)]
  /\ count' = IF msg[m].free THEN [count EXCEPT ![msg[m].day] = msg[m].read + 1] ELSE count
  /\ known' = TRUE
  /\ UNCHANGED <<today, entitled, clash>>

\* The insert of one of the rows conflicts, or the database fails: the exception
\* passes through the chat's handler.
CommitFails(m) ==
  /\ msg[m].step = "committing"
  /\ Conflict(m) \/ "commit" \in Faults
  /\ Moves(m, "lost")
  /\ UNCHANGED <<today, entitled, known, count, clash>>

-----------------------------------------------------------------------------
(* OpenAIChatClient.complete.  Messages that are blank are left out:       *)
(* Telegram does not deliver them.                                         *)

\* The next route gives a text; or an HTTP error or a document without one, and
\* the one after is tried; or what is not JSON, an exception nobody catches.
Attempt(m) ==
  /\ msg[m].step = "asking" /\ msg[m].left # <<>>
  /\ LET after == [msg[m] EXCEPT !.left = Tail(@), !.tried = @ \union {Head(msg[m].left)}] IN
     \/ msg' = [msg EXCEPT ![m] = [after EXCEPT !.step = "answered", !.left = <<>>]]
     \/ "openai" \in Faults /\ msg' = [msg EXCEPT ![m] = after]
     \/ "garbled" \in Faults /\ msg' = [msg EXCEPT ![m] = [after EXCEPT !.step = "lost", !.left = <<>>]]
  /\ UNCHANGED <<today, entitled, known, count, clash>>

\* The last error is passed on; the message stays counted.
GiveUp(m) ==
  /\ msg[m].step = "asking" /\ msg[m].left = <<>>
  /\ Moves(m, "failed")
  /\ UNCHANGED <<today, entitled, known, count, clash>>

Proceed(m) == IncrementUsage(m) \/ Commit(m) \/ CommitFails(m) \/ Attempt(m) \/ GiveUp(m)

Next ==
  \/ Midnight
  \/ SubscriptionChanges
  \/ Restart
  \/ \E m \in Messages : Begin(m) \/ Proceed(m)

Spec == Init /\ [][Next]_vars

-----------------------------------------------------------------------------
(* Properties.                                                             *)

\* Every variable stays within its type.
TypeOK ==
  /\ today \in Days
  /\ entitled \in BOOLEAN
  /\ known \in BOOLEAN
  /\ count \in [Days -> Nat]
  /\ msg \in [Messages -> Msg]
  /\ clash \subseteq Days

\* Increments that overlap may get lost and never double: a day's counter is at
\* most the number of its messages that were let through to OpenAI.
NeverOvercounted == \A d \in Days : count[d] <= Cardinality(Asked(d))

\* On a day whose countings did not overlap nothing is lost either, across
\* midnight, failures, restarts and changes of the subscription, and the limit
\* holds.
LimitHoldsAlone ==
  \A d \in Days \ clash :
    Cardinality(Asked(d)) = count[d] /\ count[d] <= Limit

\* The user is told that OpenAI does not answer only when every key has failed
\* over every proxy, wherever the rotation began.
FailedOnEveryRoute ==
  \A m \in Messages : msg[m].step = "failed" => msg[m].tried = Routes

=============================================================================
