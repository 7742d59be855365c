-------------------------------- MODULE BotProofs --------------------------------
(***************************************************************************)
(* Proofs about the two things that go on in the bot's process: the        *)
(* dialogs and the loop that sends reminders.                              *)
(*                                                                         *)
(* BotDialog, for any number of updates handled at the same time and any   *)
(* faults: types, and that the guide is for those who have paid.  It can   *)
(* be asked for by buttons on the guide itself, and it may be on its way   *)
(* in a task.  So the invariant says of tasks what the property says of    *)
(* screens and of the step (PaidInv).                                      *)
(*                                                                         *)
(* Reminders, for any users, products, length of plans and faults: types,  *)
(* no reminder twice and none missed, and whoever is reminded may renew.   *)
(* What was due at the last look is known as long as the clock has not     *)
(* gone through a window since (SeenInv).                                  *)
(***************************************************************************)
EXTENDS BotDialog, Reminders, TLAPS

-----------------------------------------------------------------------------
(* The dialogs.                                                            *)

\* Only for those who have paid.
ForPayers(next) == next.doing = "charged" \/ next.screen \in {"guide", "setup"}

PaidInv == /\ subscribed => paid
           /\ GuideAfterPayment
           /\ \A t \in Tasks : ForPayers(task[t]) => paid

DialogInv == TypeOK /\ PaidInv

\* What a step may make of the dialog.
DialogStep == fsm' \in States /\ step' \in 0..3

-----------------------------------------------------------------------------
(* Parts of handlers.                                                      *)

LEMMA ScreenType ==
  /\ Screens = {"hello", "plans", "plan", "link", "guide", "setup", "other"}
  /\ Idle \in Task
BY DEF Screens, Buttons, Idle, Task

LEMMA GetStepType == TypeOK => GetStep \in 1..3
BY DEF TypeOK, GetStep

LEMMA EntersStep ==
  ASSUME NEW state \in States, NEW n \in 0..3, Enters(state, n)
  PROVE  DialogStep /\ step' = n
BY DEF Enters, DialogStep

LEMMA SameDialog ==
  ASSUME DialogInv, UNCHANGED dialog
  PROVE  DialogStep /\ step' = step
BY DEF DialogInv, TypeOK, dialog, DialogStep

\* What Shows puts into a task.
LEMMA ShowsTask ==
  ASSUME NEW s \in Screens
  PROVE  LET next == [Idle EXCEPT !.doing = "show", !.screen = s]
         IN  /\ next \in Task
             /\ next.doing = "show"
             /\ next.screen = s
BY ScreenType DEF Task, Idle

\* A step of a handler that leaves screens and account alone.
LEMMA Handled ==
  ASSUME DialogInv, NEW t \in Tasks, NEW next \in Task, Becomes(t, next),
         UNCHANGED <<account, shown>>, DialogStep,
         step' = 3 => paid,
         ForPayers(next) => paid
  PROVE  DialogInv'
<1>1. /\ task' \in [Tasks -> Task]
      /\ \A u \in Tasks : task'[u] = task[u] \/ task'[u] = next
  BY DEF DialogInv, TypeOK, Becomes
<1>2. UNCHANGED <<subscribed, refused, paid, shown>>
  BY DEF account
<1>3. TypeOK'
  BY <1>1, <1>2 DEF DialogInv, TypeOK, DialogStep
<1>4. PaidInv'
  BY <1>1, <1>2 DEF DialogInv, PaidInv, GuideAfterPayment, ForPayers
<1> QED
  BY <1>3, <1>4 DEF DialogInv, DialogStep

\* The same for a handler that ends with a screen.
LEMMA HandledShows ==
  ASSUME DialogInv, NEW t \in Tasks, NEW s \in Screens, Shows(t, s),
         UNCHANGED <<account, shown>>, DialogStep,
         step' = 3 => paid,
         s \in {"guide", "setup"} => paid
  PROVE  DialogInv'
<1> DEFINE next == [Idle EXCEPT !.doing = "show", !.screen = s]
<1>1. next \in Task /\ next.doing = "show" /\ next.screen = s
  BY ShowsTask
<1>2. Becomes(t, next)
  BY DEF Shows
<1>3. ForPayers(next) => paid
  BY <1>1 DEF ForPayers
<1> HIDE DEF next
<1> QED
  BY <1>1, <1>2, <1>3, Handled

\* The buttons of the last two screens can be pressed by payers only.
LEMMA LastButtons ==
  ASSUME DialogInv, NEW t \in Tasks, Pressed(t, "platform") \/ Pressed(t, "platforms")
  PROVE  paid
<1>1. \A s \in Screens : "platform" \in Buttons[s] \/ "platforms" \in Buttons[s]
                           => s \in {"guide", "setup"}
  BY ScreenType DEF Buttons
<1>2. shown \subseteq Screens
  BY DEF DialogInv, TypeOK
<1>3. shown \intersect {"guide", "setup"} # {}
  BY <1>1, <1>2 DEF Pressed
<1> QED
  BY <1>3 DEF DialogInv, PaidInv, GuideAfterPayment

-----------------------------------------------------------------------------
(* The steps.                                                              *)

LEMMA InitInv == Init => DialogInv
<1> SUFFICES ASSUME Init PROVE DialogInv
  OBVIOUS
<1>1. TypeOK
  <2>1. task \in [Tasks -> Task]
    BY ScreenType DEF Init
  <2>2. /\ fsm \in States
        /\ step \in 0..3
        /\ shown \subseteq Screens
    BY DEF Init, States
  <2>3. subscribed \in BOOLEAN /\ paid \in BOOLEAN /\ refused \in BOOLEAN
    BY Zenon DEF Init
  <2> QED
    BY <2>1, <2>2, <2>3 DEF TypeOK
<1>2. \A t \in Tasks : ~ForPayers(task[t])
  BY DEF Init, ForPayers, Idle
<1> QED
  BY <1>1, <1>2 DEF Init, DialogInv, PaidInv, GuideAfterPayment

LEMMA WizardInv ==
  ASSUME DialogInv, NEW t \in Tasks, Wizard(t)
  PROVE  DialogInv'
<1> USE ScreenType
<1>0. /\ "none" \in States /\ "wizard" \in States
      /\ 0 \in 0..3 /\ 1 \in 0..3 /\ 2 \in 0..3 /\ 3 \in 0..3
      /\ subscribed => paid
      /\ step = 3 => paid
  BY DEF States, DialogInv, PaidInv, GuideAfterPayment
<1>1. ASSUME NEW n \in 0..3, SetStep(n), NEW s \in Screens, Shows(t, s),
             UNCHANGED <<account, shown>>,
             n = 3 \/ s \in {"guide", "setup"} => paid
      PROVE  DialogInv'
  <2>1. DialogStep /\ step' = n
    BY <1>0, <1>1, EntersStep DEF SetStep
  <2> QED
    BY <1>1, <2>1, HandledShows
<1>2. CASE StartOnboarding(t)
  <2>1. CASE subscribed
    <3>1. /\ Clear /\ Shows(t, "other")
          /\ UNCHANGED <<account, shown>>
      BY <1>2, <2>1 DEF StartOnboarding
    <3>2. DialogStep /\ step' = 0
      BY <1>0, <3>1, EntersStep DEF Clear
    <3> QED
      BY <3>1, <3>2, HandledShows
  <2>2. CASE ~subscribed
    BY <1>0, <1>1, <1>2, <2>2 DEF StartOnboarding
  <2> QED
    BY <2>1, <2>2
<1>3. CASE OnboardNext(t)
  BY <1>0, <1>1, <1>3 DEF OnboardNext
<1>4. CASE OnboardBack(t)
  BY <1>0, <1>1, <1>4 DEF OnboardBack
<1>5. CASE OnboardPlans(t)
  BY <1>0, <1>1, <1>5 DEF OnboardPlans
<1>6. CASE OnboardPlan(t)
  BY <1>0, <1>1, <1>6 DEF OnboardPlan
<1>7. CASE OnboardPay(t)
  BY <1>0, <1>1, <1>7 DEF OnboardPay
<1>8. CASE OnboardPaid(t)
  BY <1>0, <1>1, <1>8 DEF OnboardPaid
<1>9. CASE OnboardPlatform(t)
  <2>1. paid
    BY <1>9, LastButtons DEF OnboardPlatform
  <2> QED
    BY <1>0, <1>1, <1>9, <2>1 DEF OnboardPlatform
<1>10. CASE OnboardPlatforms(t)
  <2>1. paid
    BY <1>10, LastButtons DEF OnboardPlatforms
  <2> QED
    BY <1>0, <1>1, <1>10, <2>1 DEF OnboardPlatforms
<1>11. CASE OnboardSetup(t)
  BY <1>0, <1>1, <1>11 DEF OnboardSetup
<1>12. CASE MockPayment(t)
  <2>1. PICK next \in {[Idle EXCEPT !.doing = "charge", !.wizard = TRUE],
                       [Idle EXCEPT !.doing = "charge"]} :
          Becomes(t, next) /\ UNCHANGED <<account, shown, dialog>>
    BY <1>12 DEF MockPayment
  <2>2. next \in Task /\ ~ForPayers(next)
    BY DEF Task, Idle, ForPayers
  <2>3. DialogStep /\ step' = step
    BY <2>1, SameDialog
  <2> QED
    BY <1>0, <2>1, <2>2, <2>3, Handled
<1> QED
  BY <1>2, <1>3, <1>4, <1>5, <1>6, <1>7, <1>8, <1>9, <1>10, <1>11, <1>12 DEF Wizard

LEMMA OthersInv ==
  ASSUME DialogInv, NEW t \in Tasks, Others(t)
  PROVE  DialogInv'
<1> USE ScreenType
<1>0. /\ {"none", "chat", "support"} \subseteq States
      /\ 0 \in 0..3
      /\ step \in 0..3
      /\ step = 3 => paid
  BY DEF States, DialogInv, TypeOK, PaidInv, GuideAfterPayment
<1>1. ASSUME Shows(t, "other"), UNCHANGED <<account, shown>>, DialogStep,
             step' = step \/ step' = 0
      PROVE  DialogInv'
  BY <1>0, <1>1, HandledShows
<1>2. CASE OpenChat(t)
  <2>1. DialogStep /\ step' = step
    BY <1>0, <1>2, EntersStep DEF OpenChat
  <2> QED
    BY <1>1, <1>2, <2>1 DEF OpenChat
<1>3. CASE ChatMessage(t)
  <2>1. DialogStep /\ step' = step
    BY <1>3, SameDialog DEF ChatMessage
  <2> QED
    BY <1>1, <1>3, <2>1 DEF ChatMessage
<1>4. CASE EnterSupport(t)
  <2>1. DialogStep /\ step' = step
    BY <1>0, <1>4, EntersStep DEF EnterSupport
  <2> QED
    BY <1>1, <1>4, <2>1 DEF EnterSupport
<1>5. CASE SupportMessage(t)
  <2>1. UNCHANGED <<account, shown>>
    BY <1>5 DEF SupportMessage
  <2>2. DialogStep /\ step' = step
    BY <1>5, SameDialog DEF SupportMessage
  <2>3. PICK next \in {[Idle EXCEPT !.doing = "notify"], task[t]} : Becomes(t, next)
    <3>1. Becomes(t, [Idle EXCEPT !.doing = "notify"]) \/ Becomes(t, task[t])
      BY <1>5 DEF SupportMessage, Becomes, DialogInv, TypeOK
    <3> QED
      BY <3>1
  <2>4. next \in Task /\ (ForPayers(next) => paid)
    <3>1. CASE next = task[t]
      BY <3>1 DEF DialogInv, TypeOK, PaidInv
    <3>2. CASE next = [Idle EXCEPT !.doing = "notify"]
      BY <3>2 DEF Task, Idle, ForPayers
    <3> QED
      BY <3>1, <3>2
  <2> QED
    BY <1>0, <2>1, <2>2, <2>3, <2>4, Handled
<1>6. CASE Menu(t)
  <2>1. DialogStep /\ step' = 0
    BY <1>0, <1>6, EntersStep DEF Menu, Clear
  <2> QED
    BY <1>1, <1>6, <2>1 DEF Menu
<1>7. CASE Shop(t)
  <2>1. DialogStep /\ step' = step
    BY <1>7, SameDialog DEF Shop
  <2> QED
    BY <1>1, <1>7, <2>1 DEF Shop
<1>8. CASE SupportCategory(t)
  <2>1. DialogStep /\ step' = step
    BY <1>8, SameDialog DEF SupportCategory
  <2> QED
    BY <1>1, <1>8, <2>1 DEF SupportCategory
<1>9. CASE Commands(t)
  <2>1. DialogStep /\ step' = step
    BY <1>9, SameDialog DEF Commands
  <2> QED
    BY <1>1, <1>9, <2>1 DEF Commands
<1> QED
  BY <1>2, <1>3, <1>4, <1>5, <1>6, <1>7, <1>8, <1>9 DEF Others

LEMMA ProceedInv ==
  ASSUME DialogInv, NEW t \in Tasks, Proceed(t)
  PROVE  DialogInv'
<1> USE ScreenType
<1>0. /\ "none" \in States /\ "wizard" \in States
      /\ 0 \in 0..3 /\ 3 \in 0..3
      /\ step = 3 => paid
      /\ ForPayers(task[t]) => paid
      /\ task[t] \in Task
      /\ task \in [Tasks -> Task]
  BY DEF States, DialogInv, TypeOK, PaidInv, GuideAfterPayment
<1>1. CASE ActivateMockPayment(t)
  <2>1. DialogStep /\ step' = step
    BY <1>1, SameDialog DEF ActivateMockPayment
  <2>2. CASE /\ subscribed' = TRUE
             /\ paid' = TRUE
             /\ UNCHANGED refused
             /\ Becomes(t, [task[t] EXCEPT !.doing = "charged"])
    <3>1. [task[t] EXCEPT !.doing = "charged"] \in Task
      BY <1>0 DEF Task
    <3>2. task' \in [Tasks -> Task]
      BY <1>0, <2>2, <3>1 DEF Becomes
    <3>3. subscribed' \in BOOLEAN /\ paid' \in BOOLEAN
      BY <2>2, Zenon
    <3>4. TypeOK'
      BY <1>1, <2>1, <2>2, <3>2, <3>3 DEF ActivateMockPayment, DialogInv, TypeOK, DialogStep
    <3>5. PaidInv'
      BY <2>2 DEF PaidInv, GuideAfterPayment
    <3> QED
      BY <2>1, <3>4, <3>5 DEF DialogInv, DialogStep
  <2>3. CASE /\ Shows(t, IF task[t].wizard THEN "plan" ELSE "other")
             /\ UNCHANGED account
    <3>1. PICK s \in {"plan", "other"} : Shows(t, s)
      BY <2>3
    <3>2. UNCHANGED <<account, shown>>
      BY <1>1, <2>3 DEF ActivateMockPayment
    <3> QED
      BY <1>0, <2>1, <3>1, <3>2, HandledShows
  <2>4. CASE Becomes(t, Idle) /\ UNCHANGED account
    <3>1. UNCHANGED <<account, shown>>
      BY <1>1, <2>4 DEF ActivateMockPayment
    <3>2. ~ForPayers(Idle)
      BY DEF ForPayers, Idle
    <3> QED
      BY <1>0, <2>1, <2>4, <3>1, <3>2, Handled
  <2> QED
    BY <1>1, <2>2, <2>3, <2>4 DEF ActivateMockPayment
<1>2. CASE Charged(t)
  <2>1. paid
    BY <1>0, <1>2 DEF Charged, ForPayers
  <2>2. UNCHANGED <<account, shown>>
    BY <1>2 DEF Charged
  <2>3. CASE task[t].wizard
    <3>1. SetStep(3) /\ Shows(t, "guide")
      BY <1>2, <2>3 DEF Charged
    <3>2. DialogStep
      BY <1>0, <3>1, EntersStep DEF SetStep
    <3> QED
      BY <2>1, <2>2, <3>1, <3>2, HandledShows
  <2>4. CASE ~task[t].wizard
    <3>1. Shows(t, "other") /\ UNCHANGED dialog
      BY <1>2, <2>4 DEF Charged
    <3>2. DialogStep
      BY <3>1, SameDialog
    <3> QED
      BY <2>1, <2>2, <3>1, <3>2, HandledShows
  <2> QED
    BY <2>3, <2>4
<1>3. CASE Notified(t)
  <2>1. DialogStep /\ step' = 0
    BY <1>0, <1>3, EntersStep DEF Notified, Clear
  <2> QED
    BY <1>3, <2>1, HandledShows DEF Notified
<1>4. CASE ShowScreen(t)
  <2>1. DialogStep /\ step' = step
    BY <1>4, SameDialog DEF ShowScreen
  <2>2. /\ task[t].doing = "show"
        /\ shown' = shown \union {task[t].screen} \/ shown' = shown
        /\ Becomes(t, Idle)
        /\ UNCHANGED <<subscribed, refused, paid>>
    BY <1>4 DEF ShowScreen, account
  <2>3. task[t].screen \in Screens
    BY <1>0 DEF Task
  <2>4. /\ task' \in [Tasks -> Task]
        /\ \A u \in Tasks : task'[u] = task[u] \/ task'[u] = Idle
    BY <1>0, <2>2 DEF Becomes
  <2>5. TypeOK'
    BY <2>1, <2>2, <2>3, <2>4 DEF DialogInv, TypeOK, DialogStep
  <2>6. GuideAfterPayment'
    BY <1>0, <2>1, <2>2 DEF DialogInv, PaidInv, GuideAfterPayment, ForPayers
  <2>7. PaidInv'
    BY <2>2, <2>4, <2>6 DEF DialogInv, PaidInv, ForPayers, Idle
  <2> QED
    BY <2>1, <2>5, <2>7 DEF DialogInv, DialogStep
<1> QED
  BY <1>1, <1>2, <1>3, <1>4 DEF Proceed

LEMMA EnvironmentInv ==
  ASSUME DialogInv, Fulfilled \/ Expires \/ KeyTurns \/ Restart
  PROVE  DialogInv'
<1>1. CASE Fulfilled
  <2>1. DialogStep
    BY <1>1, SameDialog DEF Fulfilled
  <2>2. subscribed' \in BOOLEAN /\ paid' \in BOOLEAN
    BY <1>1, Zenon DEF Fulfilled
  <2>3. TypeOK'
    BY <1>1, <2>1, <2>2 DEF Fulfilled, DialogInv, TypeOK, DialogStep
  <2>4. PaidInv'
    BY <1>1 DEF Fulfilled, PaidInv, GuideAfterPayment
  <2> QED
    BY <2>1, <2>3, <2>4 DEF DialogInv, DialogStep
<1>2. CASE Expires
  <2>1. DialogStep
    BY <1>2, SameDialog DEF Expires
  <2>2. subscribed' \in BOOLEAN
    BY <1>2, Zenon DEF Expires
  <2>3. TypeOK'
    BY <1>2, <2>1, <2>2 DEF Expires, DialogInv, TypeOK, DialogStep
  <2>4. PaidInv'
    BY <1>2 DEF Expires, dialog, DialogInv, PaidInv, GuideAfterPayment, ForPayers
  <2> QED
    BY <2>1, <2>3, <2>4 DEF DialogInv, DialogStep
<1>3. CASE Restart
  <2>1. DialogStep /\ step' = 0
    BY <1>3, EntersStep DEF Restart, Clear, States
  <2>2. /\ task' \in [Tasks -> Task]
        /\ \A t \in Tasks : ~ForPayers(task'[t])
    BY <1>3, ScreenType DEF Restart, ForPayers, Idle
  <2>3. TypeOK'
    BY <1>3, <2>1, <2>2 DEF Restart, account, DialogInv, TypeOK, DialogStep
  <2>4. PaidInv'
    BY <1>3, <2>1, <2>2 DEF Restart, account, DialogInv, PaidInv, GuideAfterPayment
  <2> QED
    BY <2>1, <2>3, <2>4 DEF DialogInv, DialogStep
<1>4. CASE KeyTurns
  <2>1. DialogStep
    BY <1>4, SameDialog DEF KeyTurns
  <2>2. refused' \in BOOLEAN
    BY <1>4, Zenon DEF KeyTurns
  <2>3. TypeOK'
    BY <1>4, <2>1, <2>2 DEF KeyTurns, DialogInv, TypeOK, DialogStep
  <2>4. PaidInv'
    BY <1>4 DEF KeyTurns, dialog, DialogInv, PaidInv, GuideAfterPayment, ForPayers
  <2> QED
    BY <2>3, <2>4 DEF DialogInv
<1> QED
  BY <1>1, <1>2, <1>3, <1>4

LEMMA StutterInv == DialogInv /\ UNCHANGED vars => DialogInv'
BY DEF vars, DialogInv, TypeOK, PaidInv, GuideAfterPayment, ForPayers

LEMMA NextInv == DialogInv /\ [Next]_vars => DialogInv'
BY WizardInv, OthersInv, ProceedInv, EnvironmentInv, StutterInv DEF Next

LEMMA InvCorrect == Spec => []DialogInv
BY InitInv, NextInv, PTL DEF Spec

-----------------------------------------------------------------------------
(* Theorems.                                                               *)

\* The dialog, the screens and the tasks stay well-formed (TypeOK).
THEOREM DialogTypeCorrect == Spec => []TypeOK
<1>1. DialogInv => TypeOK
  BY DEF DialogInv
<1> QED
  BY <1>1, InvCorrect, PTL

\* The third step and the guide are reached only by those who have had a
\* subscription, whatever old buttons are pressed (onboarding_handlers.py).
THEOREM GuideAfterPaymentCorrect == Spec => []GuideAfterPayment
<1>1. DialogInv => GuideAfterPayment
  BY DEF DialogInv, PaidInv
<1> QED
  BY <1>1, InvCorrect, PTL

-----------------------------------------------------------------------------
(* The reminder loop: days, purchases and what is known of a reminder.     *)

\* The whole days left are fewer the later it is, and the two windows are days.
LEMMA Days ==
  ASSUME NEW l \in Nat
  PROVE  /\ l \div Day \in Nat
         /\ \A k \in 0..l : k \div Day <= l \div Day
         /\ l \div Day = 2 <=> 2 * Day <= l /\ l < 3 * Day
         /\ l \div Day = 0 <=> l < Day
<1>1. Day \in Nat \ {0}
  BY ClockAssumption
<1>2. l \div Day \in Nat
  BY <1>1, SMT
<1>3. \A k \in 0..l : k \div Day <= l \div Day
  BY <1>1, SMT
<1>4. l \div Day = 2 <=> 2 * Day <= l /\ l < 3 * Day
  BY <1>1, SMT
<1>5. l \div Day = 0 <=> l < Day
  BY <1>1, SMT
<1> QED BY <1>2, <1>3, <1>4, <1>5

\* Subscriptions replace each other or not at all, and each replaces itself.
LEMMA ReplacesFacts ==
  ASSUME NEW s \in Subs
  PROVE  /\ Replaces(s) \subseteq Subs
         /\ s \in Replaces(s)
         /\ \A t \in Subs : t \in Replaces(s) <=> s \in Replaces(t)
<1>1. ASSUME NEW t \in Subs
      PROVE  t \in Replaces(s) <=> t[1] = s[1] /\ t[2] \in Conflicting(s[2])
  BY <1>1 DEF Subs, Replaces
<1>2. /\ s[2] \in Conflicting(s[2])
      /\ \A p, q \in Products : p \in Conflicting(q) <=> q \in Conflicting(p)
  BY ProductsAssumption DEF Subs, Conflicting
<1>3. Replaces(s) \subseteq Subs
  BY DEF Subs, Replaces, Conflicting
<1>4. ASSUME NEW t \in Subs
      PROVE  s \in Replaces(t) <=> s[1] = t[1] /\ s[2] \in Conflicting(t[2])
  BY <1>4 DEF Subs, Replaces
<1>5. s \in Replaces(s)
  BY <1>1, <1>2
<1>6. ASSUME NEW t \in Subs PROVE t \in Replaces(s) <=> s \in Replaces(t)
  <2>1. s[2] \in Products /\ t[2] \in Products
    BY DEF Subs
  <2> QED BY <1>1, <1>2, <1>4, <2>1
<1> QED BY <1>3, <1>5, <1>6

\* What is flagged has been sent, what the batch holds is not flagged yet, and what
\* is about to be flagged is still in the batch.
BatchInv ==
  /\ flags \subseteq sent
  /\ \A i \in Fresh(batch) : i \notin flags
  /\ stage = "sent" => item \in batch /\ Fresh({item}) \subseteq sent

\* A reminder once sent is flagged, or it is about to be, or the flag was lost.
SentInv ==
  \A i \in sent : \/ i \in flags \union cut
                  \/ stage = "sent" /\ item = i /\ i.sub \notin closed

\* One of the subscriptions that replace each other runs.
OneRuns == \A s \in Subs : \A t \in Replaces(s) \ {s} : left[s] > 0 => left[t] = 0

\* A reminder that was due when the loop last looked has been sent, or is about
\* to be, or the attempt has failed; one that was bought since was not due.
SeenInv ==
  \A i \in Item :
    /\ left[i.sub] > 0
    /\ left[i.sub] + since < PlanDays * Day
    /\ InWindow(left[i.sub] + since, i.kind)
    => i \in sent \union Fresh(batch) \union spoiled

RemindersInv == RemindersTypeOK /\ BatchInv /\ SentInv /\ OneRuns /\ SeenInv

\* Before the first purchase nothing is due and nothing is known.
LEMMA RemindersStart == RemindersInit => RemindersInv
<1> SUFFICES ASSUME RemindersInit PROVE RemindersInv
  OBVIOUS
<1>1. PlanDays * Day \in Nat /\ 0 \in 0..(PlanDays * Day) /\ 0 \in 0..MaxGap
  BY ClockAssumption
<1>2. RemindersTypeOK
  BY <1>1 DEF RemindersInit, RemindersTypeOK
<1>3. \A i \in Item : left[i.sub] = 0
  BY DEF RemindersInit, Item
<1>4. BatchInv /\ SentInv /\ SeenInv
  BY <1>3 DEF RemindersInit, BatchInv, SentInv, SeenInv, Fresh
<1>5. OneRuns
  BY DEF RemindersInit, OneRuns
<1> QED BY <1>2, <1>4, <1>5 DEF RemindersInv

\* A purchase takes what is known of the subscriptions it closes out of every set.
LEMMA ActivateKeeps ==
  ASSUME RemindersInv, NEW s \in Subs, Activate(s) PROVE RemindersInv'
<1>1. /\ left \in [Subs -> 0..(PlanDays * Day)] /\ since \in Nat
      /\ PlanDays * Day \in Nat \ {0} /\ closed \subseteq Subs /\ batch \subseteq Item
  BY ClockAssumption DEF RemindersInv, RemindersTypeOK
<1>2. Closes(s) \subseteq Subs /\ s \in Closes(s)
  BY ReplacesFacts DEF Closes
<1>3. \A i \in Item : i.sub \in Subs /\ i.kind \in Kinds
  BY DEF Item
<1>4. /\ \A t \in Subs : left'[t] = IF t = s THEN PlanDays * Day
                                    ELSE IF t \in Closes(s) THEN 0 ELSE left[t]
      /\ flags' = {i \in flags : i.sub \notin Closes(s)}
      /\ sent' = {i \in sent : i.sub \notin Closes(s)}
      /\ cut' = {i \in cut : i.sub \notin Closes(s)}
      /\ spoiled' = {i \in spoiled : i.sub \notin Closes(s)}
      /\ UNCHANGED <<batch, stage, item, since>>
  BY DEF Activate, FlagsAfter, OfSubs
<1>5. /\ closed' \subseteq Subs /\ closed \subseteq closed'
      /\ \A i \in batch : i.sub \in closed' <=> i.sub \in closed \union Closes(s)
      /\ \A t \in Subs \ Closes(s) : t \in closed' <=> t \in closed
  BY <1>1, <1>2 DEF Activate
<1>6. RemindersTypeOK'
  <2>1. left' \in [Subs -> 0..(PlanDays * Day)]
    BY <1>1, <1>2 DEF Activate
  <2> QED BY <1>4, <1>5, <2>1 DEF RemindersInv, RemindersTypeOK
<1>7. BatchInv'
  BY <1>4, <1>5 DEF RemindersInv, BatchInv, Fresh
<1>8. SentInv'
  BY <1>3, <1>4, <1>5 DEF RemindersInv, RemindersTypeOK, SentInv
<1>9. OneRuns'
  <2>1. ASSUME NEW t \in Subs, NEW v \in Replaces(t) \ {t}, left'[t] > 0
        PROVE  left'[v] = 0
    <3>1. v \in Subs /\ t \in Replaces(v)
      BY ReplacesFacts
    <3>2. CASE t = s
      BY <1>4, <2>1, <3>1, <3>2 DEF Closes
    <3>3. CASE v = s
      BY <1>4, <2>1, <3>1, <3>3 DEF Closes
    <3>4. CASE t # s /\ v # s
      <4>1. t \notin Closes(s) /\ left[t] > 0
        BY <1>4, <2>1, <3>4
      <4> QED BY <1>4, <2>1, <3>1, <3>4, <4>1 DEF RemindersInv, OneRuns
    <3> QED BY <3>2, <3>3, <3>4
  <2> QED BY <2>1 DEF OneRuns
<1>10. SeenInv'
  <2>1. ASSUME NEW i \in Item,
               left'[i.sub] > 0, left'[i.sub] + since < PlanDays * Day,
               InWindow(left'[i.sub] + since, i.kind)
        PROVE  (i \in sent \union Fresh(batch) \union spoiled)'
    <3>1. i.sub \in Subs /\ i.sub \notin Closes(s) /\ left'[i.sub] = left[i.sub]
      <4>1. i.sub # s
        BY <1>1, <1>3, <1>4, <2>1
      <4> QED BY <1>3, <1>4, <2>1, <4>1
    <3>2. i \in sent \union Fresh(batch) \union spoiled
      BY <2>1, <3>1 DEF RemindersInv, SeenInv
    <3> QED BY <1>4, <1>5, <3>1, <3>2 DEF Fresh
  <2> QED BY <1>4, <2>1 DEF SeenInv
<1> QED BY <1>6, <1>7, <1>8, <1>9, <1>10 DEF RemindersInv

\* As time passes the moment of the last look stays where it is.
LEMMA TickKeeps ==
  ASSUME RemindersInv, Tick PROVE RemindersInv'
<1>1. /\ left \in [Subs -> 0..(PlanDays * Day)] /\ since \in Nat /\ MaxGap \in Nat
      /\ PlanDays * Day \in Nat \ {0} /\ since < MaxGap /\ since' = since + 1
      /\ \A s \in Subs : left'[s] = IF left[s] = 0 THEN 0 ELSE left[s] - 1
      /\ UNCHANGED <<flags, batch, closed, stage, item, sent, cut, spoiled>>
  BY ClockAssumption DEF RemindersInv, RemindersTypeOK, Tick
<1>2. RemindersTypeOK'
  <2>1. left' \in [Subs -> 0..(PlanDays * Day)]
    BY <1>1 DEF Tick
  <2> QED BY <1>1, <2>1 DEF RemindersInv, RemindersTypeOK
<1>3. BatchInv' /\ SentInv'
  BY <1>1 DEF RemindersInv, BatchInv, SentInv, Fresh
<1>4. OneRuns'
  <2>1. ASSUME NEW t \in Subs, NEW v \in Replaces(t) \ {t}, left'[t] > 0
        PROVE  left'[v] = 0
    <3>1. v \in Subs
      BY ReplacesFacts
    <3> QED BY <1>1, <2>1, <3>1 DEF RemindersInv, OneRuns
  <2> QED BY <2>1 DEF OneRuns
<1>5. SeenInv'
  <2>1. ASSUME NEW i \in Item, left'[i.sub] > 0
        PROVE  left[i.sub] > 0 /\ left'[i.sub] + since' = left[i.sub] + since
    <3>1. i.sub \in Subs
      BY DEF Item
    <3> QED BY <1>1, <2>1, <3>1
  <2> QED BY <1>1, <2>1 DEF RemindersInv, SeenInv, Fresh
<1> QED BY <1>2, <1>3, <1>4, <1>5 DEF RemindersInv

\* What is due and not in the batch that is read has been flagged, hence sent.
LEMMA LookKeeps ==
  ASSUME RemindersInv, Look PROVE RemindersInv'
<1>1. /\ UNCHANGED <<left, flags, item, sent, cut>> /\ batch' = Due /\ closed' = {}
      /\ stage # "sent" /\ stage' \in {"asleep", "sending"} /\ since' = 0
      /\ spoiled' = spoiled \ Due
  BY DEF Look
<1>2. RemindersTypeOK'
  BY <1>1, ClockAssumption DEF RemindersInv, RemindersTypeOK, Due
<1>3. BatchInv' /\ SentInv'
  BY <1>1 DEF RemindersInv, BatchInv, SentInv, Fresh, Due
<1>4. OneRuns'
  BY <1>1 DEF RemindersInv, OneRuns
<1>5. SeenInv'
  <2>1. ASSUME NEW i \in Item, InWindow(left[i.sub] + 0, i.kind)
        PROVE  i \in Due \/ i \in flags
    <3>1. left[i.sub] \in Nat
      BY DEF Item, RemindersInv, RemindersTypeOK
    <3> QED BY <2>1, <3>1 DEF Due
  <2> QED BY <1>1, <2>1 DEF RemindersInv, BatchInv, SeenInv, Fresh
<1> QED BY <1>2, <1>3, <1>4, <1>5 DEF RemindersInv

\* The steps of a batch leave time and purchases alone; each reminder that leaves
\* the batch has been sent or is counted as spoiled.
LEMMA BatchKeeps ==
  ASSUME RemindersInv,
         \/ LookFails \/ SendRaises \/ StoreFlag \/ StoreFails \/ Crash
         \/ \E i \in Item : Send(i) \/ SendRefused(i)
  PROVE  RemindersInv'
<1>1. /\ UNCHANGED <<left, since>> /\ flags \subseteq Item /\ batch \subseteq Item
      /\ (stage = "sent" => item \in batch /\ Fresh({item}) \subseteq sent)
  BY DEF RemindersInv, RemindersTypeOK, BatchInv, LookFails, SendRaises, StoreFlag, StoreFails, Crash, Send,
    SendRefused
<1>2. OneRuns'
  BY <1>1 DEF RemindersInv, OneRuns
<1>3. RemindersTypeOK'
  BY <1>1 DEF RemindersInv, RemindersTypeOK, LookFails, SendRaises, StoreFlag, StoreFails, Crash, Send,
    SendRefused, Drops, GoesOn, Fresh
<1>4. BatchInv'
  BY <1>1 DEF RemindersInv, RemindersTypeOK, BatchInv, LookFails, SendRaises, StoreFlag, StoreFails, Crash,
    Send, SendRefused, Drops, GoesOn, Fresh
<1>5. SentInv'
  BY <1>1 DEF RemindersInv, RemindersTypeOK, SentInv, LookFails, SendRaises, StoreFlag, StoreFails, Crash,
    Send, SendRefused, Drops, GoesOn, Fresh
<1>6. \A i \in sent \union Fresh(batch) \union spoiled :
        (i \in sent \union Fresh(batch) \union spoiled)'
  BY <1>1 DEF RemindersInv, RemindersTypeOK, LookFails, SendRaises, StoreFlag, StoreFails, Crash,
    Send, SendRefused, Drops, GoesOn, Fresh
<1>7. SeenInv'
  BY <1>1, <1>6 DEF RemindersInv, SeenInv
<1> QED BY <1>2, <1>3, <1>4, <1>5, <1>7 DEF RemindersInv

\* Each step of the loop, of users and of the clock keeps the invariant ...
LEMMA RemindersKept == RemindersInv /\ [RemindersNext]_reminderVars => RemindersInv'
<1> SUFFICES ASSUME RemindersInv, [RemindersNext]_reminderVars PROVE RemindersInv'
  OBVIOUS
<1>1. CASE UNCHANGED reminderVars
  BY <1>1 DEF reminderVars, RemindersInv, RemindersTypeOK, BatchInv, SentInv, OneRuns, SeenInv, Fresh
<1> QED BY <1>1, ActivateKeeps, TickKeeps, LookKeeps, BatchKeeps DEF RemindersNext, Loop

\* ... so it holds throughout.
LEMMA RemindersCorrect == RemindersSpec => []RemindersInv
BY RemindersStart, RemindersKept, PTL DEF RemindersSpec

\* The loop's batch and flags and what has been sent stay well-formed, and what
\* counts as cut has been sent.
THEOREM RemindersTypeCorrect == RemindersSpec => []RemindersTypeOK
<1>1. RemindersInv => RemindersTypeOK
  BY DEF RemindersInv
<1> QED BY <1>1, RemindersCorrect, PTL

\* A reminder is sent a second time only if its flag was lost to a crash or a
\* failed commit (subscription_reminders.py), whatever purchases came in between.
THEOREM OnceUnlessCutCorrect == RemindersSpec => OnceUnlessCut
<1>1. ASSUME RemindersInv, [RemindersNext]_reminderVars, NEW i \in Item,
             stage = "sending", stage' = "sent", item' = i, i.sub \notin closed, i \in sent
      PROVE  i \in cut
  <2>1. i \in batch
    BY <1>1 DEF RemindersNext, Activate, Tick, Loop, Look, LookFails, Send, SendRefused, SendRaises,
      StoreFlag, StoreFails, Crash, Drops, GoesOn, reminderVars
  <2>2. i \notin flags
    BY <1>1, <2>1 DEF RemindersInv, BatchInv, Fresh
  <2> QED BY <1>1, <2>2 DEF RemindersInv, SentInv
<1>2. RemindersInv /\ [RemindersNext]_reminderVars
        => [\A i \in Item :
              stage = "sending" /\ stage' = "sent" /\ item' = i /\ i.sub \notin closed /\ i \in sent
                => i \in cut]_reminderVars
  BY <1>1
<1> QED BY <1>2, RemindersCorrect, PTL DEF RemindersSpec, OnceUnlessCut

\* No reminder is missed: when its day ends it has been sent, is in the batch, or
\* the last attempt has failed.  A plan of exactly two days is another matter: it
\* begins on the last tick of its third last day, before any look.
THEOREM NoneMissedCorrect ==
  ASSUME PlanDays # 2
  PROVE  RemindersSpec => NoneMissed
<1>1. ASSUME RemindersInv, [RemindersNext]_reminderVars, NEW i \in Item,
             since' > since, InWindow(left[i.sub], i.kind), ~InWindow(left'[i.sub], i.kind)
      PROVE  i \in sent \/ i \in Fresh(batch) \/ i \in spoiled
  <2>1. since \in Nat /\ i.sub \in Subs /\ i.kind \in Kinds /\ left[i.sub] \in 0..(PlanDays * Day)
    BY <1>1 DEF RemindersInv, RemindersTypeOK, Item
  <2>2. Tick
    <3>1. ASSUME NEW s \in Subs, Activate(s) PROVE since' = since
      BY <3>1 DEF Activate
    <3>2. CASE Loop \/ Crash
      BY <1>1, <2>1, <3>2 DEF Loop, Look, LookFails, Send, SendRefused, SendRaises, StoreFlag, StoreFails,
        Crash
    <3>3. CASE UNCHANGED reminderVars
      BY <1>1, <2>1, <3>3 DEF reminderVars
    <3> QED BY <1>1, <2>1, <3>1, <3>2, <3>3 DEF RemindersNext
  <2> DEFINE l == left[i.sub]
  <2>3. /\ l \in Nat /\ l > 0 /\ l - 1 \in Nat /\ left'[i.sub] = l - 1
        /\ Day \in Nat \ {0} /\ PlanDays \in Nat \ {0} /\ PlanDays * Day \in Nat
        /\ since < MaxGap /\ MaxGap < Day /\ MaxGap \in Nat
    BY <1>1, <2>1, <2>2, ClockAssumption DEF Tick, InWindow
  <2>4. l + since < PlanDays * Day /\ InWindow(l + since, i.kind)
    <3>1. CASE i.kind = "2d"
      <4>1. 2 * Day <= l /\ l < 3 * Day
        BY <1>1, <2>3, <3>1, Days DEF InWindow
      <4>2. l - 1 < 2 * Day
        BY <1>1, <2>3, <3>1, <4>1, Days DEF InWindow
      <4>3. l = 2 * Day
        BY <2>3, <4>1, <4>2
      <4>4. l + since \in Nat /\ 2 * Day <= l + since /\ l + since < 3 * Day
        BY <2>1, <2>3, <4>3
      <4>5. 3 * Day <= PlanDays * Day
        <5>1. PlanDays # 1
          BY <2>1, <2>3, <4>3
        <5>2. PlanDays >= 3
          BY <2>3, <5>1
        <5> QED BY <2>3, <5>2
      <4> QED BY <2>1, <2>3, <3>1, <4>4, <4>5, Days DEF InWindow
    <3>2. CASE i.kind = "0d"
      <4>1. l < Day
        BY <1>1, <2>3, <3>2, Days DEF InWindow
      <4>2. l = 1
        BY <1>1, <2>3, <3>2, <4>1, Days DEF InWindow
      <4>3. l + since \in Nat /\ l + since > 0 /\ l + since < Day
        BY <2>1, <2>3, <4>2
      <4>4. Day <= PlanDays * Day
        BY <2>3
      <4> QED BY <2>3, <3>2, <4>3, <4>4, Days DEF InWindow
    <3> QED BY <2>1, <3>1, <3>2 DEF Kinds
  <2> QED BY <1>1, <2>3, <2>4 DEF RemindersInv, SeenInv
<1>2. RemindersInv /\ [RemindersNext]_reminderVars
        => [\A i \in Item :
              since' > since /\ InWindow(left[i.sub], i.kind) /\ ~InWindow(left'[i.sub], i.kind)
                => i \in sent \/ i \in Fresh(batch) \/ i \in spoiled]_reminderVars
  BY <1>1
<1> QED BY <1>2, RemindersCorrect, PTL DEF RemindersSpec, NoneMissed

\* Whoever is reminded may renew: what is due does not hinder, and nothing else
\* that the purchase would replace is running or begins to run.
THEOREM RemindedMayRenewCorrect ==
  ASSUME EarlyDays >= 2
  PROVE  RemindersSpec => []RemindedMayRenew
<1>0. /\ EarlyDays \in Nat /\ PlanDays * Day \in Nat /\ 0 \div Day = 0
  BY ClockAssumption, Days
<1>1. ASSUME RemindersInit PROVE RemindedMayRenew
  BY <1>1 DEF RemindersInit, RemindedMayRenew, Fresh
<1>2. ASSUME RemindersInv, RemindedMayRenew, [RemindersNext]_reminderVars,
             NEW i \in Fresh(batch)', NEW t \in Replaces(i.sub)
      PROVE  left'[t] \div Day <= EarlyDays
  <2>1. i \in Item /\ i.sub \in Subs /\ t \in Subs /\ i.sub \in Replaces(t)
    <3>1. RemindersInv'
      BY <1>2, RemindersKept
    <3>2. i \in Item /\ i.sub \in Subs
      BY <3>1 DEF RemindersInv, RemindersTypeOK, Fresh, Item
    <3> QED BY <3>2, ReplacesFacts
  <2>2. left[t] \in 0..(PlanDays * Day)
    BY <1>2, <2>1 DEF RemindersInv, RemindersTypeOK
  <2>3. CASE Look
    <3>1. i \in Due /\ left' = left
      BY <1>2, <2>3 DEF Look, Fresh
    <3>2. left[i.sub] > 0 /\ left[i.sub] \div Day <= 2
      BY <3>1, <2>1, Days DEF Due, InWindow
    <3>3. CASE t = i.sub
      BY <1>0, <3>1, <3>2, <3>3, <2>2, Days
    <3>4. CASE t # i.sub
      BY <1>0, <1>2, <2>1, <3>1, <3>2, <3>4 DEF RemindersInv, OneRuns
    <3> QED BY <3>3, <3>4
  <2>4. CASE ~Look
    <3>1. i \in Fresh(batch)
      BY <1>2, <2>4 DEF RemindersNext, Activate, Tick, Loop, LookFails, Send, SendRefused, SendRaises,
        StoreFlag, StoreFails, Crash, Drops, GoesOn, reminderVars, Fresh
    <3>2. left[t] \div Day <= EarlyDays
      BY <1>2, <3>1 DEF RemindedMayRenew, MayBuy, DaysLeft
    <3>3. left'[t] \in 0..left[t]
      <4>1. ASSUME NEW s \in Subs, Activate(s) PROVE left'[t] \in {0, left[t]}
        <5>1. i.sub \notin Closes(s)
          BY <1>2, <2>1, <3>1, <4>1 DEF Activate, Fresh
        <5>2. t # s
          BY <2>1, <5>1, ReplacesFacts DEF Closes
        <5> QED BY <2>1, <4>1, <5>2 DEF Activate
      <4>2. CASE Tick
        BY <2>1, <2>2, <4>2, <1>0 DEF Tick
      <4>3. CASE Loop \/ Crash \/ UNCHANGED reminderVars
        <5>1. left' = left
          BY <2>4, <4>3 DEF Loop, LookFails, Send, SendRefused, SendRaises, StoreFlag, StoreFails, Crash,
            reminderVars
        <5> QED BY <2>2, <5>1
      <4> QED BY <1>2, <2>2, <4>1, <4>2, <4>3 DEF RemindersNext
    <3> QED BY <1>0, <2>2, <3>2, <3>3, Days
  <2> QED BY <2>3, <2>4
<1>3. RemindersInv /\ RemindedMayRenew /\ [RemindersNext]_reminderVars => RemindedMayRenew'
  BY <1>2 DEF RemindedMayRenew, MayBuy, DaysLeft, Replaces, Conflicting
<1> QED BY <1>1, <1>3, RemindersCorrect, PTL DEF RemindersSpec

=============================================================================
