------------------------------ MODULE Payments -------------------------------
(***************************************************************************)
(* Payments through YooKassa: PaymentService (netagent_common/             *)
(* payment_service.py) creates an invoice from a bot thread or from the    *)
(* web process, and the web process fulfils it when YooKassa reports that  *)
(* it was paid.                                                            *)
(*                                                                         *)
(* The row is committed after YooKassa has answered, the web hook commits  *)
(* the event, the details and the activation one after the other, YooKassa *)
(* repeats it until the answer is 200, and any process may stop between    *)
(* two steps.  The web process runs its handlers one at a time: they are   *)
(* async functions that call this code directly and wait for nothing else  *)
(* before everything is committed.                                         *)
(*                                                                         *)
(* The idempotence key is made from the row's id, so a payment has at most *)
(* one invoice: both are functions of the payment here.  The plans are     *)
(* those that replace each other, with one price.                          *)
(***************************************************************************)
EXTENDS Naturals

CONSTANTS
  Users,        \* accounts
  Nobody,       \* the account of a row that does not exist
  Payments,     \* bound: ids the sequence of the payments table gives out
  NoPayment,    \* the payment of an idle worker
  Bots,         \* threads of the bot process
  Web,          \* the web process
  Prices,       \* values of plan.price_rub; more than one if it is changed
  Faults        \* what may fail: "provider", "commit", "crash", "answer"

Workers == Bots \union {Web}

ASSUME UsersAssumption    == Nobody \notin Users
ASSUME PaymentsAssumption == NoPayment \notin Payments
ASSUME WorkersAssumption  == Web \notin Bots
ASSUME PricesAssumption   == Prices \subseteq Nat \ {0}
ASSUME FaultsAssumption   == Faults \subseteq {"provider", "commit", "crash", "answer"}

VARIABLES
  payment,   \* table payments
  issued,    \* ids taken from the sequence, those of rows rolled back too
  price,     \* the plan's price
  left,      \* time left in the user's subscription
  invoice,   \* payments as YooKassa knows them
  links,     \* payments whose confirmation URL was returned to the user
  unacked,   \* payments whose web hook YooKassa has not got a 200 for
  op,        \* what each worker is doing
  grants,    \* history: activations made for each payment
  repriced   \* history: payments created before the last change of the price

vars == <<payment, issued, price, left, invoice, links, unacked, op, grants, repriced>>
hooks == <<payment, left, unacked, grants>>
site  == <<issued, price, repriced, invoice, links>>

Row == [status: {"none", "pending", "failed", "succeeded", "canceled"},
        user: Users \union {Nobody},
        external: BOOLEAN]                           \* external_id is stored
Invoice == [status: {"none", "pending", "succeeded", "canceled"},
            amount: Prices \union {0}]
Step == {"idle", "post", "store", "fail",                       \* creation
         "cancel", "check", "activate", "provision", "answer"}  \* web hook
Op == [step: Step, user: Users \union {Nobody},
       payment: Payments \union {NoPayment}, amount: Prices \union {0}]

NoRow     == [status |-> "none", user |-> Nobody, external |-> FALSE]
NoInvoice == [status |-> "none", amount |-> 0]
Idle      == [step |-> "idle", user |-> Nobody, payment |-> NoPayment, amount |-> 0]

Init ==
  /\ payment = [p \in Payments |-> NoRow]
  /\ issued = {}
  /\ price \in Prices
  /\ left = [u \in Users |-> "none"]
  /\ invoice = [p \in Payments |-> NoInvoice]
  /\ links = {}
  /\ unacked = {}
  /\ op = [w \in Workers |-> Idle]
  /\ grants = [p \in Payments |-> 0]
  /\ repriced = {}

Becomes(w, next) == op' = [op EXCEPT ![w] = next]
Goes(w, step)    == op' = [op EXCEPT ![w].step = step]

\* A commit succeeds, or raises and leaves the database as it was.
Outcomes == {TRUE} \union (IF "commit" \in Faults THEN {FALSE} ELSE {})

-----------------------------------------------------------------------------
(* The plan and the clock.                                                 *)

\* A migration sets a new price.
Reprice ==
  /\ \E r \in Prices \ {price} : price' = r
  /\ repriced' = repriced \union issued
  /\ UNCHANGED <<hooks, issued, invoice, links, op>>

\* Time goes by: the last EARLY_RENEWAL_DAYS of the subscription begin, or it ends.
TimePasses(u) ==
  /\ left[u] # "none"
  /\ left' = [left EXCEPT ![u] = IF @ = "long" THEN "short" ELSE "none"]
  /\ UNCHANGED <<payment, unacked, grants, site, op>>

\* _can_purchase_plan: nothing that conflicts runs for more than five days.
CanPurchase(u) == left[u] # "long"

-----------------------------------------------------------------------------
(* Creating a payment: _create_yookassa_payment.                           *)

\* The row is flushed, which takes an id, and stays invisible to the others.
CreatePayment(w, u) ==
  /\ op[w] = Idle
  /\ CanPurchase(u)
  /\ \E p \in Payments \ issued :
       /\ issued' = issued \union {p}
       /\ Becomes(w, [step |-> "post", user |-> u, payment |-> p, amount |-> price])
  /\ UNCHANGED <<hooks, price, repriced, invoice, links>>

\* POST /payments makes an invoice of the amount that create_payment was given.
Invoiced(w) ==
  [invoice EXCEPT ![op[w].payment] = [status |-> "pending", amount |-> op[w].amount]]

\* The request is answered with a link; refused, or answered without a link
\* (the row will say "failed"); or it raises a transport error that nobody
\* catches, and the session closes without a commit.  An invoice may exist
\* although its answer was an error or never came.
PostInvoice(w) ==
  /\ op[w].step = "post"
  /\ \/ invoice' = Invoiced(w) /\ Goes(w, "store")
     \/ /\ "provider" \in Faults
        /\ invoice' \in {invoice, Invoiced(w)}
        /\ Goes(w, "fail") \/ Becomes(w, Idle)
  /\ UNCHANGED <<hooks, issued, price, repriced, links>>

\* Mutant: the link is handed out although the commit has failed.
StoreAnyway(w) ==
  LET p == op[w].payment IN
  /\ op[w].step = "store"
  /\ \E ok \in Outcomes :
       /\ payment' = IF ok THEN [payment EXCEPT ![p] =
                              [status |-> "pending", user |-> op[w].user, external |-> TRUE]]
                     ELSE payment
       /\ links' = links \union {p}
  /\ Becomes(w, Idle)
  /\ UNCHANGED <<left, unacked, grants, issued, price, repriced, invoice>>

\* external_id and URL are committed with the row; only then is the link
\* returned, unless the process stops in between.
StorePayment(w) ==
  LET p == op[w].payment IN
  /\ op[w].step = "store"
  /\ \E ok \in Outcomes :
       IF ok
       THEN /\ payment' = [payment EXCEPT ![p] =
                 [status |-> "pending", user |-> op[w].user, external |-> TRUE]]
            /\ \/ links' = links \union {p}
               \/ "crash" \in Faults /\ UNCHANGED links
       ELSE UNCHANGED <<payment, links>>
  /\ Becomes(w, Idle)
  /\ UNCHANGED <<left, unacked, grants, issued, price, repriced, invoice>>

\* The row is kept as failed, without external_id.
StoreFailure(w) ==
  /\ op[w].step = "fail"
  /\ \E ok \in Outcomes :
       IF ok
       THEN payment' = [payment EXCEPT ![op[w].payment] =
              [status |-> "failed", user |-> op[w].user, external |-> FALSE]]
       ELSE UNCHANGED payment
  /\ Becomes(w, Idle)
  /\ UNCHANGED <<left, unacked, grants, site>>

-----------------------------------------------------------------------------
(* YooKassa and the user.                                                  *)

Pay(p) ==
  /\ p \in links
  /\ invoice[p].status = "pending"
  /\ invoice' = [invoice EXCEPT ![p].status = "succeeded"]
  /\ unacked' = unacked \union {p}
  /\ UNCHANGED <<payment, left, grants, issued, price, repriced, links, op>>

\* The user declines, or the invoice expires.
Cancel(p) ==
  /\ invoice[p].status = "pending"
  /\ invoice' = [invoice EXCEPT ![p].status = "canceled"]
  /\ unacked' = unacked \union {p}
  /\ UNCHANGED <<payment, left, grants, issued, price, repriced, links, op>>

-----------------------------------------------------------------------------
(* The web hook: handle_yookassa_webhook in the web process.               *)

\* _log_webhook_event: payment_webhook_events refers to the payment, so an
\* event of a payment without a row cannot be logged.
CanLog(p) == payment[p].status # "none"

\* Mutant: the hook is acknowledged before it is processed.
ReceiveAcknowledges(p) ==
  /\ op[Web] = Idle
  /\ p \in unacked
  /\ CanLog(p)
  /\ Becomes(Web, [Idle EXCEPT
       !.payment = p,
       !.step = IF invoice[p].status = "canceled" THEN "cancel" ELSE "check",
       !.amount = invoice[p].amount])
  /\ unacked' = unacked \ {p}
  /\ UNCHANGED <<payment, left, grants, site>>

\* The event is logged first.  If it cannot be, that is a 500 and changes
\* nothing, like any error before the last step.
Receive(p) ==
  /\ op[Web] = Idle
  /\ p \in unacked
  /\ CanLog(p)
  /\ Becomes(Web, [Idle EXCEPT
       !.payment = p,
       !.step = IF invoice[p].status = "canceled" THEN "cancel" ELSE "check",
       !.amount = invoice[p].amount])
  /\ UNCHANGED <<hooks, site>>

\* _mark_canceled finds the row by external_id.
MarkCanceled ==
  LET p == op[Web].payment IN
  /\ op[Web].step = "cancel"
  /\ \E ok \in Outcomes :
       /\ payment' = IF ok /\ payment[p].external /\ payment[p].status = "pending"
                       THEN [payment EXCEPT ![p].status = "canceled"] ELSE payment
       /\ IF ok THEN Goes(Web, "answer") ELSE Becomes(Web, Idle)
  /\ UNCHANGED <<left, unacked, grants, site>>

\* _amount_matches compares with the plan's price of today.
AmountMatches == op[Web].amount = price

\* The first part of _fulfill: whether there is anything to activate.  It
\* commits the details of the payment, which no property tells apart.
Fulfill ==
  LET p == op[Web].payment
      due == payment[p].status = "pending" /\ AmountMatches
  IN
  /\ op[Web].step = "check"
  /\ \/ due /\ Goes(Web, "activate")
     \/ due /\ "commit" \in Faults /\ Becomes(Web, Idle)
     \/ ~due /\ Goes(Web, "answer")
  /\ UNCHANGED <<hooks, site>>

\* Mutant: the status is not stored with the activation.
ActivateOnly ==
  LET p == op[Web].payment IN
  /\ op[Web].step = "activate"
  /\ left' = [left EXCEPT ![payment[p].user] = "long"]
  /\ grants' = [grants EXCEPT ![p] = @ + 1]
  /\ Goes(Web, "provision")
  /\ UNCHANGED <<payment, unacked, site>>

\* BillingClient.fulfill_payment: the subscription (thirty days from now,
\* whatever was left) and the payment's status in one commit.
FulfillPayment ==
  LET p == op[Web].payment IN
  /\ op[Web].step = "activate"
  /\ \E ok \in Outcomes :
       IF ok
       THEN /\ payment' = [payment EXCEPT ![p].status = "succeeded"]
            /\ left' = [left EXCEPT ![payment[p].user] = "long"]
            /\ grants' = [grants EXCEPT ![p] = @ + 1]
            /\ Goes(Web, "provision")
       ELSE Becomes(Web, Idle) /\ UNCHANGED <<payment, left, grants>>
  /\ UNCHANGED <<unacked, site>>

\* ensure_vpn_key (module VpnKeys); its errors are logged.
Provision ==
  /\ op[Web].step = "provision"
  /\ Goes(Web, "answer")
  /\ UNCHANGED <<hooks, site>>

\* Mutant: an error in the handler is answered with 200 as well.
AnswerAlways ==
  /\ op[Web].step \in {"cancel", "check", "activate", "provision", "answer"}
  /\ unacked' = unacked \ {op[Web].payment}
  /\ Becomes(Web, Idle)
  /\ UNCHANGED <<payment, left, grants, site>>

\* The user is told through Telegram, which changes nothing here, and the hook
\* is answered with 200; the answer may get lost on its way.
Answer ==
  /\ op[Web].step = "answer"
  /\ \/ unacked' = unacked \ {op[Web].payment}
     \/ "answer" \in Faults /\ UNCHANGED unacked
  /\ Becomes(Web, Idle)
  /\ UNCHANGED <<payment, left, grants, site>>

\* A process stops: its open transaction is gone, its commits are not.
Crash(w) ==
  /\ "crash" \in Faults
  /\ op[w] # Idle
  /\ Becomes(w, Idle)
  /\ UNCHANGED <<hooks, site>>

-----------------------------------------------------------------------------
Creation(w) == PostInvoice(w) \/ StorePayment(w) \/ StoreFailure(w)
WebHook     == MarkCanceled \/ Fulfill \/ FulfillPayment \/ Provision \/ Answer

Next ==
  \/ Reprice
  \/ \E u \in Users : TimePasses(u)
  \/ \E w \in Workers, u \in Users : CreatePayment(w, u)
  \/ \E w \in Workers : Creation(w) \/ Crash(w)
  \/ \E p \in Payments : Pay(p) \/ Cancel(p) \/ Receive(p)
  \/ WebHook

Spec == Init /\ [][Next]_vars

\* Every worker that is not stopped goes on (calls to YooKassa end after 30 s)
\* and YooKassa repeats a hook until it is answered with 200.  What is tried
\* again and again succeeds in the end: no fault strikes every single time.
Fairness ==
  /\ \A w \in Workers : WF_vars(Creation(w))
  /\ WF_vars(WebHook)
  /\ \A p \in Payments : SF_vars(Receive(p))
  /\ SF_vars(Fulfill /\ op'[Web].step = "activate")
  /\ SF_vars(FulfillPayment /\ grants' # grants)

FairSpec == Spec /\ Fairness

-----------------------------------------------------------------------------
(* Properties.                                                             *)

\* Every variable stays within its type.
TypeOK ==
  /\ payment \in [Payments -> Row]
  /\ issued \subseteq Payments
  /\ price \in Prices
  /\ left \in [Users -> {"none", "short", "long"}]
  /\ invoice \in [Payments -> Invoice]
  /\ links \subseteq Payments
  /\ unacked \subseteq Payments
  /\ op \in [Workers -> Op]
  /\ grants \in [Payments -> Nat]
  /\ repriced \subseteq Payments

\* Whatever the user can pay is on record: the link is in nobody's hands
\* before the row is committed with the external_id that a later hook looks
\* for, and neither is lost afterwards (_create_yookassa_payment).
PayableIsRecorded ==
  \A p \in links : /\ payment[p].external
                   /\ payment[p].user \in Users
                   /\ payment[p].status \in {"pending", "succeeded", "canceled"}

\* A row never says more than YooKassa does, across duplicated hooks, crashes
\* and failed commits: succeeded and canceled rows have such an invoice, and no
\* money is taken for a row that says failed or was rolled back.
RowAgreesWithInvoice ==
  \A p \in Payments :
    /\ payment[p].status \in {"succeeded", "canceled"}
         => invoice[p].status = payment[p].status
    /\ invoice[p].status = "succeeded"
         => payment[p].status \in {"pending", "succeeded"}

\* Once YooKassa has been told 200 and stops repeating the hook, a payment
\* that took the user's money has activated its plan, exactly one time, unless
\* the price has changed since it was created: an error or a crash anywhere in
\* the handler must end in a repetition.
AckedIsSettled ==
  \A p \in Payments : invoice[p].status = "succeeded" /\ p \notin unacked
    => \/ payment[p].status = "succeeded" /\ grants[p] = 1
       \/ p \in repriced

\* The invoice of a payment in the words of PaymentLedger.
Money(p) ==
  CASE invoice[p].status = "succeeded"                -> "paid"
    [] invoice[p].status = "canceled"                 -> "void"
    [] invoice[p].status = "pending" /\ p \in links   -> "offered"
    [] OTHER                                          -> "none"

Ledger == INSTANCE PaymentLedger WITH money <- [p \in Payments |-> Money(p)]

\* The web hooks, their repetitions and the crashes implement the ledger: only
\* offered invoices are paid, and money received grants its plan once.
ImplementsLedger == Ledger!Spec

\* Money received activates the plan in the end, whatever fails on the way, as
\* long as the price stays what it was; what becomes of the other payments is
\* PaidIsActivatedAtAnyPrice.
PaidIsActivated ==
  \A p \in Payments :
    (invoice[p].status = "succeeded")
      ~> (payment[p].status = "succeeded" \/ p \in repriced)

-----------------------------------------------------------------------------
(* What texts say of the program, refuted by a run.                        *)

\* payment_checkout_text (bot/messages.py) shows the sum and says that after
\* its payment the subscription is activated automatically.
PaidIsActivatedAtAnyPrice ==
  \A p \in Payments :
    (invoice[p].status = "succeeded") ~> (payment[p].status = "succeeded")

=============================================================================
