------------------------------- MODULE BotDialog --------------------------------
(***************************************************************************)
(* The dialogs of the Telegram bot (bot/onboarding_handlers.py,            *)
(* ai_handlers.py, support_handlers.py, handlers.py): the state that       *)
(* aiogram keeps for a user, the screens with their buttons, and the       *)
(* handlers of commands, buttons and texts.                                *)
(*                                                                         *)
(* Every update is handled by a task of its own.  A handler runs without   *)
(* interruption up to its first wait (a call to Telegram, a thread), and   *)
(* what it does after a wait is a step of its own: another update of the   *)
(* same user may have been handled in between.  The state lives in the     *)
(* memory of the process, the screens stay in the chat: buttons of any     *)
(* screen ever shown may be pressed.                                       *)
(*                                                                         *)
(* Users share nothing here, so there is one.  Only the screens of the     *)
(* setup wizard are told apart: the others are within reach all the time,  *)
(* by commands and from the main menu.                                     *)
(***************************************************************************)
EXTENDS Naturals

CONSTANTS
  Tasks,   \* bound: updates handled at the same time
  Faults   \* what may fail: "telegram", "database", "restart"

ASSUME FaultsAssumption == Faults \subseteq {"telegram", "database", "restart"}

VARIABLES
  fsm,        \* state of the user: OnboardingStates, AiChatStates, SupportStates
  step,       \* onboard_step among the data of the state, 0 if it is not there
  subscribed, \* has a VPN or bundle subscription that is active and not over
  refused,    \* ensure_vpn_key raises for this user what the wizard does not catch
  shown,      \* screens of the wizard that were ever shown
  task,       \* what each task is doing
  paid        \* history: has been subscribed at some time

vars == <<fsm, step, subscribed, refused, shown, task, paid>>
account == <<subscribed, refused, paid>>
dialog  == <<fsm, step>>

\* The screens of the wizard, with the buttons that keyboards.py gives them.
\* Screens from which nothing else of the wizard is reached are "other".
Buttons == [hello |-> {"accept"},
            plans |-> {"plan", "back"},
            plan  |-> {"pay", "mockpay", "plans", "back"},
            link  |-> {"paid", "plans"},
            guide |-> {"platform", "back"},
            setup |-> {"platforms"},
            other |-> {}]
Screens == DOMAIN Buttons

States == {"none", "wizard", "chat", "support"}

\* show: a screen is on its way to Telegram; notify: the administrator is being
\* told of a ticket; charge: a mock payment runs in a thread; charged: it is
\* done.  wizard: the payment was started by the wizard.
Task == [doing: {"idle", "show", "notify", "charge", "charged"},
         screen: Screens, wizard: BOOLEAN]
Idle == [doing |-> "idle", screen |-> "other", wizard |-> FALSE]

Init ==
  /\ fsm = "none"
  /\ step = 0
  /\ subscribed = FALSE
  /\ refused = FALSE
  /\ shown = {}
  /\ task = [t \in Tasks |-> Idle]
  /\ paid = FALSE

-----------------------------------------------------------------------------
(* What handlers are made of.                                              *)

Free(t)       == task[t] = Idle
Pressed(t, b) == Free(t) /\ \E s \in shown : b \in Buttons[s]

Becomes(t, next) == task' = [task EXCEPT ![t] = next]
Shows(t, s)      == Becomes(t, [Idle EXCEPT !.doing = "show", !.screen = s])

\* A dialog is entered, or left for the menu.
Enters(state, n) == fsm' = state /\ step' = n

\* _set_step.
SetStep(n) == Enters("wizard", n)

\* state.clear() forgets the data as well.
Clear == Enters("none", 0)

\* _get_step: one, if there is no data.
GetStep == IF step = 0 THEN 1 ELSE step

-----------------------------------------------------------------------------
(* The setup wizard.                                                       *)

\* The routers of the chat and of support come first: within their states a
\* command for a later router ends there, with a request for a text.
CommandPasses == fsm \notin {"chat", "support"}

\* /start.
StartOnboarding(t) ==
  /\ Free(t)
  /\ CommandPasses
  /\ IF subscribed THEN Clear /\ Shows(t, "other")
                   ELSE SetStep(1) /\ Shows(t, "hello")
  /\ UNCHANGED <<account, shown>>

\* In the second step without a subscription there is an alert and no more.
OnboardNext(t) ==
  /\ Pressed(t, "accept")
  /\ \/ GetStep = 1 /\ SetStep(2) /\ Shows(t, "plans")
     \/ GetStep = 2 /\ subscribed /\ SetStep(3) /\ Shows(t, "guide")
  /\ UNCHANGED <<account, shown>>

OnboardBack(t) ==
  /\ Pressed(t, "back")
  /\ IF GetStep = 3 THEN SetStep(2) /\ Shows(t, "plans")
                    ELSE SetStep(1) /\ Shows(t, "hello")
  /\ UNCHANGED <<account, shown>>

OnboardPlans(t) ==
  /\ Pressed(t, "plans")
  /\ SetStep(2)
  /\ Shows(t, "plans")
  /\ UNCHANGED <<account, shown>>

OnboardPlan(t) ==
  /\ Pressed(t, "plan")
  /\ SetStep(2)
  /\ Shows(t, "plan")
  /\ UNCHANGED <<account, shown>>

\* The payment is created in a thread (module Payments): a link, or an error
\* with the plan's buttons.
OnboardPay(t) ==
  /\ Pressed(t, "pay")
  /\ SetStep(2)
  /\ \E s \in {"link", "plan"} : Shows(t, s)
  /\ UNCHANGED <<account, shown>>

\* Mutant: the handler answers in the wizard's state only.
OnboardPaidInWizard(t) ==
  /\ Pressed(t, "paid")
  /\ fsm = "wizard"
  /\ subscribed
  /\ SetStep(3)
  /\ Shows(t, "guide")
  /\ UNCHANGED <<account, shown>>

\* Without a subscription yet: an alert and no more.
OnboardPaid(t) ==
  /\ Pressed(t, "paid")
  /\ subscribed
  /\ SetStep(3)
  /\ Shows(t, "guide")
  /\ UNCHANGED <<account, shown>>

OnboardPlatform(t) ==
  /\ Pressed(t, "platform")
  /\ SetStep(3)
  /\ Shows(t, "setup")
  /\ UNCHANGED <<account, shown>>

\* The one way to the guide without a look at the subscription.
OnboardPlatforms(t) ==
  /\ Pressed(t, "platforms")
  /\ SetStep(3)
  /\ Shows(t, "guide")
  /\ UNCHANGED <<account, shown>>

\* Mutant: the subscription is taken for granted.
OnboardSetupForAll(t) ==
  /\ Free(t)
  /\ SetStep(3)
  /\ Shows(t, "guide")
  /\ UNCHANGED <<account, shown>>

\* From the account's screen.
OnboardSetup(t) ==
  /\ Free(t)
  /\ subscribed
  /\ SetStep(3)
  /\ Shows(t, "guide")
  /\ UNCHANGED <<account, shown>>

-----------------------------------------------------------------------------
(* Mock payments, from the wizard or from the menu.                        *)

MockPayment(t) ==
  /\ \/ Pressed(t, "mockpay") /\ Becomes(t, [Idle EXCEPT !.doing = "charge", !.wizard = TRUE])
     \/ Free(t) /\ Becomes(t, [Idle EXCEPT !.doing = "charge"])
  /\ UNCHANGED <<account, shown, dialog>>

\* activate_mock_payment in its thread.  It may refuse, for which there is a
\* screen with the plan's buttons, or sell an AI plan from the menu; Telegram
\* may have refused the screen before.
ActivateMockPayment(t) ==
  /\ task[t].doing = "charge"
  /\ \/ /\ subscribed' = TRUE
        /\ paid' = TRUE
        /\ UNCHANGED refused
        /\ Becomes(t, [task[t] EXCEPT !.doing = "charged"])
     \/ /\ Shows(t, IF task[t].wizard THEN "plan" ELSE "other")
        /\ UNCHANGED account
     \/ "telegram" \in Faults /\ Becomes(t, Idle) /\ UNCHANGED account
  /\ UNCHANGED <<shown, dialog>>

\* Back in the handler, the wizard moves on wherever the user is.
Charged(t) ==
  /\ task[t].doing = "charged"
  /\ IF task[t].wizard THEN SetStep(3) /\ Shows(t, "guide")
                       ELSE Shows(t, "other") /\ UNCHANGED dialog
  /\ UNCHANGED <<account, shown>>

-----------------------------------------------------------------------------
(* The chat, support and the menu.                                         *)

\* A set_state keeps the data.
OpenChat(t) ==
  /\ Free(t)
  /\ Enters("chat", step)
  /\ Shows(t, "other")
  /\ UNCHANGED <<account, shown>>

\* complete_message (module AiQuota) and its answer.
ChatMessage(t) ==
  /\ Free(t)
  /\ fsm = "chat"
  /\ Shows(t, "other")
  /\ UNCHANGED <<account, shown, dialog>>

EnterSupport(t) ==
  /\ Free(t)
  /\ Enters("support", step)
  /\ Shows(t, "other")
  /\ UNCHANGED <<account, shown>>

\* The ticket is committed and the administrator told of it.  A failed commit is
\* an exception.
SupportMessage(t) ==
  /\ Free(t)
  /\ fsm = "support"
  /\ \/ Becomes(t, [Idle EXCEPT !.doing = "notify"])
     \/ "database" \in Faults /\ UNCHANGED task
  /\ UNCHANGED <<account, shown, dialog>>

\* Whether or not the administrator could be told, and wherever the user is now.
Notified(t) ==
  /\ task[t].doing = "notify"
  /\ Clear
  /\ Shows(t, "other")
  /\ UNCHANGED <<account, shown>>

\* The menu, the account's screen, /stop and the end of the chat.
Menu(t) ==
  /\ Free(t)
  /\ Clear
  /\ Shows(t, "other")
  /\ UNCHANGED <<account, shown>>

\* A category of the question: the data has it, the state stays.
SupportCategory(t) ==
  /\ Free(t)
  /\ fsm = "support"
  /\ Shows(t, "other")
  /\ UNCHANGED <<account, shown, dialog>>

\* /plans and /help.
Commands(t) ==
  /\ Free(t)
  /\ CommandPasses
  /\ Shows(t, "other")
  /\ UNCHANGED <<account, shown, dialog>>

\* The shop, a plan, a payment's link, the key as a text: they leave the state
\* as it is, also within the chat.
Shop(t) ==
  /\ Free(t)
  /\ Shows(t, "other")
  /\ UNCHANGED <<account, shown, dialog>>

-----------------------------------------------------------------------------
(* The screens, the account and the process.                               *)

\* The last two screens hand out the key of whoever has a subscription: it is
\* made first, and what _connection_uri_for_user does not catch ends the handler.
CanShow(s) == s \in {"guide", "setup"} /\ subscribed => ~refused

\* A call to Telegram may fail, and the database may before it: the handler
\* ends, the state stays as it was written.
ShowScreen(t) ==
  /\ task[t].doing = "show"
  /\ \/ CanShow(task[t].screen) /\ shown' = shown \union {task[t].screen}
     \/ ~CanShow(task[t].screen) /\ UNCHANGED shown
     \/ Faults \intersect {"telegram", "database"} # {} /\ UNCHANGED shown
  /\ Becomes(t, Idle)
  /\ UNCHANGED <<account, dialog>>

\* The monitor suspends the user's device, whose row then stands in the way of
\* every other one, or the nodes are full for a user without a device; a node may
\* have places again, and the row can be changed by hand.
KeyTurns ==
  /\ refused' = ~refused
  /\ UNCHANGED <<subscribed, paid, shown, task, dialog>>

\* The web process activates a plan, or the subscription ends.
Fulfilled ==
  /\ subscribed' = TRUE
  /\ paid' = TRUE
  /\ UNCHANGED <<refused, shown, task, dialog>>

Expires ==
  /\ subscribed
  /\ subscribed' = FALSE
  /\ UNCHANGED <<refused, paid, shown, task, dialog>>

\* MemoryStorage is empty after a restart.
Restart ==
  /\ "restart" \in Faults
  /\ Clear
  /\ task' = [t \in Tasks |-> Idle]
  /\ UNCHANGED <<account, shown>>

-----------------------------------------------------------------------------
Wizard(t) ==
  \/ StartOnboarding(t) \/ OnboardNext(t) \/ OnboardBack(t)
  \/ OnboardPlans(t) \/ OnboardPlan(t) \/ OnboardPay(t) \/ OnboardPaid(t)
  \/ OnboardPlatform(t) \/ OnboardPlatforms(t) \/ OnboardSetup(t)
  \/ MockPayment(t)

Others(t) ==
  \/ OpenChat(t) \/ ChatMessage(t) \/ EnterSupport(t) \/ SupportMessage(t)
  \/ SupportCategory(t) \/ Commands(t) \/ Menu(t) \/ Shop(t)

Proceed(t) == ActivateMockPayment(t) \/ Charged(t) \/ Notified(t) \/ ShowScreen(t)

Next ==
  \/ \E t \in Tasks : Wizard(t) \/ Others(t) \/ Proceed(t)
  \/ Fulfilled
  \/ Expires
  \/ KeyTurns
  \/ Restart

Spec == Init /\ [][Next]_vars

\* Calls and threads end; a user who has paid presses the button until the
\* guide is there, and Telegram shows it at one of the times when it gets so far.
Fairness ==
  /\ \A t \in Tasks : WF_vars(Proceed(t))
  /\ SF_vars(\E t \in Tasks : OnboardPaid(t))
  /\ SF_vars(\E t \in Tasks : ShowScreen(t) /\ "guide" \in shown')

FairSpec == Spec /\ Fairness

-----------------------------------------------------------------------------
(* Properties.                                                             *)

\* Every variable stays within its type.
TypeOK ==
  /\ fsm \in States
  /\ step \in 0..3
  /\ subscribed \in BOOLEAN
  /\ shown \subseteq Screens
  /\ task \in [Tasks -> Task]
  /\ refused \in BOOLEAN
  /\ paid \in BOOLEAN

\* Nobody gets to the third step of the wizard, where the key is handed out,
\* without ever having had a subscription: whatever old buttons are pressed,
\* whatever a restart has forgotten or a late handler has written.  Not every
\* handler on the way looks at the subscription.
GuideAfterPayment ==
  step = 3 \/ shown \intersect {"guide", "setup"} # {} => paid

\* A user who has a payment link, has paid and keeps pressing "I have paid"
\* gets the guide, although the bot forgets every state when it is restarted;
\* unless the key is refused at a press with an error that the guide does not
\* catch: the row of a suspended device (IntegrityError; see
\* SuspendedUserGetsNewKey in VpnKeys) and full nodes (BillingError), which may
\* last for ever.
PaidReachesGuide ==
  (subscribed /\ "link" \in shown) ~> (~subscribed \/ "guide" \in shown \/ refused)

=============================================================================
