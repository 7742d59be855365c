------------------------------- MODULE Reminders -------------------------------
(***************************************************************************)
(* Reminders that a subscription is about to end                           *)
(* (bot/subscription_reminders.py): one two days before, one on the last   *)
(* day.  A loop in the bot reads once an hour which are due and sends them *)
(* one after the other, storing a flag after each.  Meanwhile time passes  *)
(* and users buy (bot/billing.py): a purchase closes the subscriptions it  *)
(* replaces and starts a new one with fresh flags, while the loop goes on  *)
(* with what it has read.  A user whom Telegram refuses is skipped; any    *)
(* other error drops the rest of the batch until the next look.            *)
(*                                                                         *)
(* Only users who have a Telegram id are here; others are never reminded.  *)
(*                                                                         *)
(* The loop runs in the process of the dialogs (BotDialog), and BotProofs  *)
(* extends both modules: hence the prefixes of its names.                  *)
(***************************************************************************)
EXTENDS Integers, FiniteSets

CONSTANTS
  Users,
  Products,   \* a subset of {"vpn", "ai", "bundle"}
  Day,        \* ticks of the clock in a day
  PlanDays,   \* duration_days
  EarlyDays,  \* EARLY_RENEWAL_DAYS
  MaxGap,     \* bound: ticks between two looks that succeed, crashes in between included
  LoopFaults  \* what may go wrong: "refused", "raises", "database", "crash"

ASSUME ClockAssumption ==
  /\ Day \in Nat \ {0} /\ PlanDays \in Nat \ {0} /\ EarlyDays \in Nat
  /\ MaxGap \in 1..(Day - 1)      \* an hour of sleep and the sending, within a day
ASSUME ProductsAssumption == Products \subseteq {"vpn", "ai", "bundle"}
ASSUME LoopFaultsAssumption == LoopFaults \subseteq {"refused", "raises", "database", "crash"}

Subs  == Users \X Products
Kinds == {"2d", "0d"}
Item  == [sub: Subs, kind: Kinds]

VARIABLES
  left,     \* ticks to expires_at of each user's running subscription; 0 if none
  flags,    \* reminder_2d_sent and reminder_0d_sent of running subscriptions
  batch,    \* the reminders the loop has still to send
  closed,   \* the subscriptions among them that a purchase has replaced since
  stage,    \* where the loop is
  item,     \* the reminder that has been sent and is to be flagged
  since,    \* ticks since the loop last looked
  sent,     \* history: reminders sent for the running subscriptions
  cut,      \* history: those whose flag was not stored afterwards
  spoiled   \* history: reminders that the last attempt did not bring home

reminderVars == <<left, flags, batch, closed, stage, item, since, sent, cut, spoiled>>

NoItem == [sub |-> <<>>, kind |-> "none"]

RemindersInit ==
  /\ left = [s \in Subs |-> 0]
  /\ flags = {} /\ batch = {} /\ closed = {}
  /\ stage = "started"
  /\ item = NoItem
  /\ since = 0
  /\ sent = {} /\ cut = {} /\ spoiled = {}

-----------------------------------------------------------------------------
(* Purchases.                                                              *)

\* _conflicting_product_types
Conflicting(p) == Products \intersect (IF p = "bundle" THEN {"vpn", "ai", "bundle"} ELSE {p, "bundle"})

Replaces(s) == {<<s[1], p>> : p \in Conflicting(s[2])}

DaysLeft(s) == left[s] \div Day

\* _can_purchase_plan.  That a plan can no longer be bought once it is taken out
\* of the catalogue (Plan.is_active) is left out: plans stay.
MayBuy(s) == \A t \in Replaces(s) : DaysLeft(t) <= EarlyDays

OfSubs(items, subs) == {i \in items : i.sub \in subs}

\* Mutant: only a subscription of the same product is closed.
ClosesSame(s) == {s}

\* _expire_conflicting_subscriptions
Closes(s) == Replaces(s)

\* Mutant: the new subscription takes over the flags of the old one.
FlagsKept(s) == flags

FlagsAfter(s) == flags \ OfSubs(flags, Closes(s))

\* _activate_plan_for_user: not before the last days, unless payments are mocked
\* or an older invoice is paid, so at any time.
Activate(s) ==
  /\ left' = [t \in Subs |-> IF t = s THEN PlanDays * Day ELSE IF t \in Closes(s) THEN 0 ELSE left[t]]
  /\ flags' = FlagsAfter(s)
  /\ closed' = closed \union ({i.sub : i \in batch} \intersect Closes(s))
  /\ sent' = sent \ OfSubs(sent, Closes(s))
  /\ cut' = cut \ OfSubs(cut, Closes(s))
  /\ spoiled' = spoiled \ OfSubs(spoiled, Closes(s))
  /\ UNCHANGED <<batch, stage, item, since>>

\* Time passes; the loop does not stay away for longer than the bound.
Tick ==
  /\ since < MaxGap
  /\ since' = since + 1
  /\ left' = [s \in Subs |-> IF left[s] = 0 THEN 0 ELSE left[s] - 1]
  /\ UNCHANGED <<flags, batch, closed, stage, item, sent, cut, spoiled>>

-----------------------------------------------------------------------------
(* The loop.                                                               *)

InWindow(l, kind) == l > 0 /\ l \div Day = IF kind = "2d" THEN 2 ELSE 0

\* _due_reminders
Due == {i \in Item : InWindow(left[i.sub], i.kind) /\ i \notin flags}

Look ==
  /\ stage = "started" \/ (stage = "asleep" /\ since > 0)
  /\ batch' = Due
  /\ closed' = {}
  /\ stage' = IF Due = {} THEN "asleep" ELSE "sending"
  /\ since' = 0
  /\ spoiled' = spoiled \ Due
  /\ UNCHANGED <<left, flags, item, sent, cut>>

\* The query fails and the loop goes to sleep; if it was asleep, it still is.
LookFails ==
  /\ "database" \in LoopFaults
  /\ stage = "started"
  /\ stage' = "asleep"
  /\ UNCHANGED <<left, flags, batch, closed, item, since, sent, cut, spoiled>>

\* The reminders of running subscriptions among some.
Fresh(items) == {i \in items : i.sub \notin closed}

\* The next in the batch, or an hour's sleep.
GoesOn(i) ==
  /\ batch' = batch \ {i}
  /\ stage' = IF batch = {i} THEN "asleep" ELSE "sending"
  /\ item' = NoItem

\* An exception leaves the for loop and is logged; or the bot dies with it.
Drops(next) ==
  /\ batch' = {}
  /\ closed' = {}
  /\ stage' = next
  /\ item' = NoItem
  /\ spoiled' = spoiled \union Fresh(batch)

Send(i) ==
  /\ stage = "sending"
  /\ i \in batch
  /\ stage' = "sent"
  /\ item' = i
  /\ sent' = sent \union Fresh({i})
  /\ UNCHANGED <<left, flags, batch, closed, since, cut, spoiled>>

\* TelegramForbiddenError, TelegramBadRequest
SendRefused(i) ==
  /\ "refused" \in LoopFaults
  /\ stage = "sending"
  /\ i \in batch
  /\ GoesOn(i)
  /\ spoiled' = spoiled \union Fresh({i})
  /\ UNCHANGED <<left, flags, closed, since, sent, cut>>

\* Mutant: the error ends the task.
SendEndsTask ==
  /\ "raises" \in LoopFaults
  /\ stage = "sending"
  /\ Drops("ended")
  /\ UNCHANGED <<left, flags, since, sent, cut>>

SendRaises ==
  /\ "raises" \in LoopFaults
  /\ stage = "sending"
  /\ Drops("asleep")
  /\ UNCHANGED <<left, flags, since, sent, cut>>

\* Mutant: the other flag is set.
StoreOtherFlag ==
  /\ stage = "sent"
  /\ flags' = flags \union Fresh({[item EXCEPT !.kind = IF @ = "2d" THEN "0d" ELSE "2d"]})
  /\ GoesOn(item)
  /\ UNCHANGED <<left, closed, since, sent, cut, spoiled>>

\* The flag is stored, with the row that was read even if it is closed by now.
StoreFlag ==
  /\ stage = "sent"
  /\ flags' = flags \union Fresh({item})
  /\ GoesOn(item)
  /\ UNCHANGED <<left, closed, since, sent, cut, spoiled>>

StoreFails ==
  /\ "database" \in LoopFaults
  /\ stage = "sent"
  /\ cut' = cut \union Fresh({item})
  /\ Drops("asleep")
  /\ UNCHANGED <<left, flags, since, sent>>

\* The bot is killed, and looks as soon as it is back.
Crash ==
  /\ "crash" \in LoopFaults
  /\ stage # "started"
  /\ cut' = IF stage = "sent" THEN cut \union Fresh({item}) ELSE cut
  /\ Drops("started")
  /\ UNCHANGED <<left, flags, since, sent>>

Loop == \/ Look \/ LookFails
        \/ \E i \in Item : Send(i) \/ SendRefused(i)
        \/ SendRaises \/ StoreFlag \/ StoreFails

RemindersNext == \/ \E s \in Subs : Activate(s)
                 \/ Tick
                 \/ Loop
                 \/ Crash

RemindersSpec == RemindersInit /\ [][RemindersNext]_reminderVars

\* The loop is a task of the bot's event loop, which comes to every task; the
\* bot does not die, nor the query fail, every time it is about to look.
RemindersFairSpec == RemindersSpec /\ WF_reminderVars(Loop) /\ WF_reminderVars(Tick) /\ SF_reminderVars(Look)

-----------------------------------------------------------------------------
(* Properties.                                                             *)

\* No reminder of a subscription is sent twice, unless the bot died or the
\* database failed between sending it and storing its flag.
OnceUnlessCut ==
  [][\A i \in Item :
       stage = "sending" /\ stage' = "sent" /\ item' = i /\ i.sub \notin closed /\ i \in sent
         => i \in cut]_reminderVars

\* When a subscription leaves the third last day, or its last, its reminder has
\* been sent, or it is in the batch at work, or the last attempt at it was refused
\* or dropped: however purchases, crashes and a slow batch fall.
NoneMissed ==
  [][\A i \in Item :
       since' > since /\ InWindow(left[i.sub], i.kind) /\ ~InWindow(left'[i.sub], i.kind)
         => i \in sent \/ i \in Fresh(batch) \/ i \in spoiled]_reminderVars

\* Who is reminded of a running subscription may pay for that plan at once:
\* nothing the purchase would replace runs for longer than EARLY_RENEWAL_DAYS.
RemindedMayRenew == \A i \in Fresh(batch) : MayBuy(i.sub)

\* The loop never stops looking, whatever its sends and stores run into.
ChecksGoOn == []<><<Look>>_reminderVars

\* Every variable stays within its type.
RemindersTypeOK ==
  /\ left \in [Subs -> 0..(PlanDays * Day)]
  /\ flags \subseteq Item /\ batch \subseteq Item /\ closed \subseteq Subs
  /\ stage \in {"started", "asleep", "sending", "sent"}
  /\ item \in Item \union {NoItem}
  /\ since \in 0..MaxGap
  /\ sent \subseteq Item /\ cut \subseteq sent /\ spoiled \subseteq Item

=============================================================================
