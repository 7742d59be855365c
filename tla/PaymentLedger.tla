---------------------------- MODULE PaymentLedger ----------------------------
(***************************************************************************)
(* What a payment promises, without the web hooks, commits and crashes:    *)
(* the user is offered an invoice, pays it or lets it go, and a paid       *)
(* invoice grants the plan it was for once and for good.                   *)
(***************************************************************************)
EXTENDS Naturals

CONSTANT Payments      \* payments that may ever be made

VARIABLES
  money,     \* what has become of the invoice of each payment
  grants     \* how many times each payment has granted its plan

ledger == <<money, grants>>

Init ==
  /\ money = [p \in Payments |-> "none"]
  /\ grants = [p \in Payments |-> 0]

\* The user gets a link to pay.
Offer(p) ==
  /\ money[p] = "none"
  /\ money' = [money EXCEPT ![p] = "offered"]
  /\ UNCHANGED grants

\* Only what was offered can be paid.
Pay(p) ==
  /\ money[p] = "offered"
  /\ money' = [money EXCEPT ![p] = "paid"]
  /\ UNCHANGED grants

\* An invoice is withdrawn before it is paid, offered or not.
Withdraw(p) ==
  /\ money[p] \in {"none", "offered"}
  /\ money' = [money EXCEPT ![p] = "void"]
  /\ UNCHANGED grants

\* The plan is granted for money received, one time.
Grant(p) ==
  /\ money[p] = "paid"
  /\ grants[p] = 0
  /\ grants' = [grants EXCEPT ![p] = 1]
  /\ UNCHANGED money

Next == \E p \in Payments : Offer(p) \/ Pay(p) \/ Withdraw(p) \/ Grant(p)

Spec == Init /\ [][Next]_ledger

=============================================================================
