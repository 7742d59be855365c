--------------------------- MODULE PaymentsProofs ----------------------------
(***************************************************************************)
(* Theorems about Payments, for any number of accounts, payments and bot   *)
(* threads, any prices and any choice of what may fail.                    *)
(***************************************************************************)
EXTENDS Payments, TLAPS

CreationSteps == {"post", "store", "fail"}
HookSteps     == {"cancel", "check", "activate", "provision", "answer"}

\* An id the sequence has not given out is known to nobody.
FreshInv ==
  \A p \in Payments \ issued :
    /\ payment[p] = NoRow
    /\ invoice[p] = NoInvoice
    /\ p \notin links
    /\ \A w \in Workers : op[w].payment # p

\* A row being created is invisible, nobody can pay it and only its creator
\* works on it.
Creating(w) ==
  /\ op[w].payment \in Payments
  /\ op[w].user \in Users
  /\ op[w].amount \in Prices
  /\ payment[op[w].payment] = NoRow
  /\ op[w].payment \notin links
  /\ op[w].step = "post" => invoice[op[w].payment] = NoInvoice
  /\ op[w].step = "store" => invoice[op[w].payment].status # "none"
  /\ \A v \in Workers \ {w} : op[v].payment # op[w].payment

CreationInv == \A w \in Workers : op[w].step \in CreationSteps => Creating(w)

\* A web hook is handled by the web process, for a payment on record, and
\* what it has read of the invoice and of the row still holds.
Handling(w) ==
  /\ w = Web
  /\ op[w].payment \in Payments
  /\ payment[op[w].payment].status # "none"
  /\ op[w].step = "cancel" => invoice[op[w].payment].status = "canceled"
  /\ op[w].step \in {"check", "activate", "provision"}
       => invoice[op[w].payment].status = "succeeded"
  /\ op[w].step = "activate" => payment[op[w].payment].status = "pending"

HookInv == \A w \in Workers : op[w].step \in HookSteps => Handling(w)

\* Rows, invoices, links and activations agree.
RowOK(p) ==
  /\ p \in links => payment[p].external
  /\ payment[p].external => payment[p].status \in {"pending", "succeeded", "canceled"}
  /\ payment[p].status # "none" => payment[p].user \in Users
  /\ invoice[p].status = "succeeded" => p \in links
  /\ p \in unacked => invoice[p].status \in {"succeeded", "canceled"}
  /\ payment[p].status \in {"succeeded", "canceled"}
       => invoice[p].status = payment[p].status
  /\ grants[p] = IF payment[p].status = "succeeded" THEN 1 ELSE 0

RowsInv == \A p \in Payments : RowOK(p)

Inv == TypeOK /\ FreshInv /\ CreationInv /\ HookInv /\ RowsInv

\* The invariant holds at the start.
LEMMA InvInit == Init => Inv
<1> SUFFICES ASSUME Init PROVE Inv
  OBVIOUS
<1> USE UsersAssumption, PaymentsAssumption, WorkersAssumption, PricesAssumption DEF Init
<1>1. TypeOK
  BY DEF TypeOK, Row, Invoice, Step, Op, NoRow, NoInvoice, Idle
<1>2. FreshInv
  BY DEF FreshInv, Idle
<1>3. CreationInv /\ HookInv
  BY DEF CreationInv, Creating, HookInv, Handling, CreationSteps, HookSteps, Idle
<1>4. RowsInv
  BY DEF RowsInv, RowOK, NoRow, NoInvoice
<1> QED BY <1>1, <1>2, <1>3, <1>4 DEF Inv

-----------------------------------------------------------------------------
(* Updates.                                                                *)

\* Updating a function at one argument, with the types left unexpanded.
LEMMA Update ==
  ASSUME NEW S, NEW T, NEW f \in [S -> T], NEW x \in S, NEW y \in T, NEW g,
         g = [f EXCEPT ![x] = y]
  PROVE  g \in [S -> T] /\ g[x] = y /\ \A z \in S \ {x} : g[z] = f[z]
OBVIOUS

\* An idle worker, and a worker that goes on to another step.
LEMMA OpFacts ==
  ASSUME op \in [Workers -> Op], NEW w \in Workers
  PROVE  /\ Idle \in Op
         /\ op[w].step \in Step
         /\ op[w].user \in Users \union {Nobody}
         /\ op[w].payment \in Payments \union {NoPayment}
         /\ op[w].amount \in Prices \union {0}
         /\ \A step \in Step :
              /\ [op[w] EXCEPT !.step = step] \in Op
              /\ Goes(w, step) => Becomes(w, [op[w] EXCEPT !.step = step])
<1>1. Idle \in Op
  BY DEF Idle, Op, Step
<1>2. op[w] \in Op
  OBVIOUS
<1> QED BY <1>1, <1>2 DEF Op, Goes, Becomes

\* After a step of worker w only that worker's entry differs.
LEMMA OpUpdate ==
  ASSUME op \in [Workers -> Op], NEW w \in Workers, NEW next \in Op, Becomes(w, next)
  PROVE  /\ op' \in [Workers -> Op]
         /\ op'[w] = next
         /\ \A v \in Workers \ {w} : op'[v] = op[v]
BY Update DEF Becomes

\* The fields of a row, and a row with another status.
LEMMA RowFacts ==
  ASSUME payment \in [Payments -> Row], NEW p \in Payments
  PROVE  /\ payment[p].status \in {"none", "pending", "failed", "succeeded", "canceled"}
         /\ payment[p].user \in Users \union {Nobody}
         /\ payment[p].external \in BOOLEAN
         /\ \A s \in {"pending", "failed", "succeeded", "canceled"} :
              /\ [payment[p] EXCEPT !.status = s] \in Row
              /\ [payment[p] EXCEPT !.status = s].status = s
              /\ [payment[p] EXCEPT !.status = s].user = payment[p].user
              /\ [payment[p] EXCEPT !.status = s].external = payment[p].external
              /\ [payment EXCEPT ![p].status = s]
                   = [payment EXCEPT ![p] = [payment[p] EXCEPT !.status = s]]
<1>1. payment[p] \in Row
  OBVIOUS
<1> QED BY <1>1 DEF Row

\* The fields of an invoice, and an invoice with another status.
LEMMA InvoiceFacts ==
  ASSUME invoice \in [Payments -> Invoice], NEW p \in Payments
  PROVE  /\ invoice[p].status \in {"none", "pending", "succeeded", "canceled"}
         /\ invoice[p].amount \in Prices \union {0}
         /\ \A s \in {"pending", "succeeded", "canceled"} :
              /\ [invoice[p] EXCEPT !.status = s] \in Invoice
              /\ [invoice[p] EXCEPT !.status = s].status = s
              /\ [invoice[p] EXCEPT !.status = s].amount = invoice[p].amount
              /\ [invoice EXCEPT ![p].status = s]
                   = [invoice EXCEPT ![p] = [invoice[p] EXCEPT !.status = s]]
<1>1. invoice[p] \in Invoice
  OBVIOUS
<1> QED BY <1>1 DEF Invoice

-----------------------------------------------------------------------------
(* The invariant is kept by every step.                                    *)

\* Prices and time do not touch payments.
LEMMA InvClock ==
  ASSUME Inv, Reprice \/ \E u \in Users : TimePasses(u)
  PROVE  Inv'
<1>1. UNCHANGED <<payment, issued, invoice, links, unacked, op, grants>>
  BY DEF Reprice, TimePasses, hooks, site
<1>2. TypeOK'
  <2>1. /\ price' \in Prices
        /\ left' \in [Users -> {"none", "short", "long"}]
        /\ repriced' \subseteq Payments
    BY DEF Inv, TypeOK, Reprice, TimePasses, hooks, site
  <2> QED BY <1>1, <2>1 DEF Inv, TypeOK
<1>3. FreshInv' /\ CreationInv' /\ HookInv' /\ RowsInv'
  BY <1>1 DEF Inv, FreshInv, CreationInv, Creating, HookInv, Handling, RowsInv, RowOK
<1> QED BY <1>2, <1>3 DEF Inv

\* A step that changes nothing but the worker's own entry, goes on with the
\* same payment or stops, and meets the demands of its next step.
LEMMA InvAdvance ==
  ASSUME Inv, NEW w \in Workers, NEW next \in Op, Becomes(w, next),
         UNCHANGED <<hooks, site>>,
         next.step \notin CreationSteps,
         next.payment \in {op[w].payment, NoPayment},
         next.step \in HookSteps =>
           /\ w = Web
           /\ next.payment \in Payments
           /\ payment[next.payment].status # "none"
           /\ next.step # "cancel"
           /\ next.step \in {"check", "activate", "provision"}
                => invoice[next.payment].status = "succeeded"
           /\ next.step = "activate" => payment[next.payment].status = "pending"
  PROVE  Inv'
<1>1. /\ op' \in [Workers -> Op]
      /\ op'[w] = next
      /\ \A v \in Workers \ {w} : op'[v] = op[v]
  BY OpUpdate DEF Inv, TypeOK
<1>2. UNCHANGED <<payment, issued, price, repriced, left, invoice, links, unacked, grants>>
  BY DEF hooks, site
<1>3. TypeOK'
  BY <1>1, <1>2 DEF Inv, TypeOK
<1>4. FreshInv'
  BY <1>1, <1>2, PaymentsAssumption DEF Inv, FreshInv
<1>5. CreationInv'
  BY <1>1, <1>2, PaymentsAssumption DEF Inv, CreationInv, Creating
<1>6. HookInv'
  BY <1>1, <1>2 DEF Inv, HookInv, Handling
<1>7. RowsInv'
  BY <1>2 DEF Inv, RowsInv, RowOK
<1> QED BY <1>3, <1>4, <1>5, <1>6, <1>7 DEF Inv

\* Crashes, and the steps of the web hook that commit nothing.
LEMMA InvOpOnly ==
  ASSUME Inv, (\E w \in Workers : Crash(w)) \/ Fulfill \/ Provision
  PROVE  Inv'
<1> USE WorkersAssumption DEF Workers
<1>1. op \in [Workers -> Op]
  BY DEF Inv, TypeOK
<1>2. Idle \in Op /\ Idle.step = "idle" /\ Idle.payment = NoPayment
  BY <1>1, OpFacts DEF Idle
<1>3. CASE \E w \in Workers : Crash(w)
  <2>1. PICK w \in Workers : Crash(w)
    BY <1>3
  <2>2. Becomes(w, Idle) /\ UNCHANGED <<hooks, site>>
    BY <2>1 DEF Crash
  <2> QED BY <1>2, <2>2, InvAdvance DEF CreationSteps, HookSteps
<1>4. ASSUME op[Web].step \in HookSteps \ {"cancel"}, UNCHANGED <<hooks, site>>,
             NEW step \in {"activate", "provision", "answer"}, Goes(Web, step),
             step \in {"activate", "provision"} => op[Web].step \in {"check", "activate"},
             step = "activate" => payment[op[Web].payment].status = "pending"
      PROVE  Inv'
  <2> DEFINE next == [op[Web] EXCEPT !.step = step]
  <2>1. next \in Op /\ Becomes(Web, next)
    BY <1>1, <1>4, OpFacts DEF Step
  <2>2. next.step = step /\ next.payment = op[Web].payment
    BY <1>1 DEF Op
  <2>3. /\ op[Web].payment \in Payments
        /\ payment[op[Web].payment].status # "none"
        /\ op[Web].step \in {"check", "activate", "provision"}
             => invoice[op[Web].payment].status = "succeeded"
    BY <1>4 DEF Inv, HookInv, Handling
  <2> HIDE DEF next
  <2> QED BY <1>4, <2>1, <2>2, <2>3, InvAdvance DEF CreationSteps, HookSteps
<1>5. CASE Fulfill
  <2>1. op[Web].step = "check" /\ UNCHANGED <<hooks, site>>
    BY <1>5 DEF Fulfill
  <2>2. CASE Becomes(Web, Idle)
    BY <1>2, <2>1, <2>2, InvAdvance DEF CreationSteps, HookSteps
  <2>3. CASE Goes(Web, "activate") /\ payment[op[Web].payment].status = "pending"
    BY <1>4, <2>1, <2>3 DEF HookSteps
  <2>4. CASE Goes(Web, "answer")
    BY <1>4, <2>1, <2>4 DEF HookSteps
  <2> QED BY <1>5, <2>2, <2>3, <2>4 DEF Fulfill
<1>6. CASE Provision
  BY <1>4, <1>6 DEF Provision, HookSteps
<1> QED BY <1>3, <1>5, <1>6

\* A new payment takes an id nobody knows.
LEMMA InvCreate ==
  ASSUME Inv, NEW w \in Workers, NEW u \in Users, CreatePayment(w, u)
  PROVE  Inv'
<1>1. PICK p \in Payments \ issued :
        /\ issued' = issued \union {p}
        /\ Becomes(w, [step |-> "post", user |-> u, payment |-> p, amount |-> price])
  BY DEF CreatePayment
<1> DEFINE next == [step |-> "post", user |-> u, payment |-> p, amount |-> price]
<1>2. UNCHANGED <<payment, price, repriced, left, invoice, links, unacked, grants>>
  BY DEF CreatePayment, hooks
<1>3. op[w] = Idle /\ price \in Prices /\ op \in [Workers -> Op]
  BY DEF CreatePayment, Inv, TypeOK
<1>4. next \in Op
  BY <1>3 DEF Op, Step
<1>5. /\ next.step = "post"
      /\ next.user = u
      /\ next.payment = p
      /\ next.amount = price
  OBVIOUS
<1> HIDE DEF next
<1>6. /\ op' \in [Workers -> Op]
      /\ op'[w] = next
      /\ \A v \in Workers \ {w} : op'[v] = op[v]
  BY <1>1, <1>3, <1>4, OpUpdate DEF next
<1>7. /\ payment[p] = NoRow
      /\ invoice[p] = NoInvoice
      /\ p \notin links
      /\ \A v \in Workers : op[v].payment # p
  BY DEF Inv, FreshInv
<1>8. TypeOK'
  BY <1>1, <1>2, <1>6 DEF Inv, TypeOK
<1>9. FreshInv'
  BY <1>1, <1>2, <1>5, <1>6 DEF Inv, FreshInv
<1>10. CreationInv'
  BY <1>2, <1>3, <1>5, <1>6, <1>7 DEF Inv, CreationInv, Creating
<1>11. HookInv'
  BY <1>2, <1>5, <1>6 DEF Inv, HookInv, Handling, HookSteps
<1>12. RowsInv'
  BY <1>2 DEF Inv, RowsInv, RowOK
<1> QED BY <1>8, <1>9, <1>10, <1>11, <1>12 DEF Inv

\* A worker that goes on creating, or ends: its entry after the step.
LEMMA InvPost ==
  ASSUME Inv, NEW w \in Workers, PostInvoice(w)
  PROVE  Inv'
<1> DEFINE p == op[w].payment
           new == [status |-> "pending", amount |-> op[w].amount]
<1>1. /\ p \in Payments
      /\ op[w].user \in Users
      /\ op[w].amount \in Prices
      /\ payment[p] = NoRow
      /\ p \notin links
      /\ invoice[p] = NoInvoice
      /\ \A v \in Workers \ {w} : op[v].payment # p
  BY DEF PostInvoice, Inv, CreationInv, Creating, CreationSteps
<1>2. p \in issued
  BY <1>1 DEF Inv, FreshInv
<1>3. UNCHANGED <<payment, issued, price, repriced, left, links, unacked, grants>>
  BY DEF PostInvoice, hooks
<1>4. new \in Invoice /\ new.status = "pending"
  BY <1>1 DEF Invoice
<1>5. /\ op \in [Workers -> Op]
      /\ invoice \in [Payments -> Invoice]
  BY DEF Inv, TypeOK
<1>6. /\ invoice' \in [Payments -> Invoice]
      /\ invoice'[p] \in {NoInvoice, new}
      /\ \A q \in Payments \ {p} : invoice'[q] = invoice[q]
  <2>1. CASE invoice' = [invoice EXCEPT ![p] = new]
    <3> HIDE DEF new
    <3> QED BY <1>1, <1>4, <1>5, <2>1, Update
  <2>2. CASE invoice' = invoice
    BY <1>1, <1>5, <2>2
  <2> QED BY <2>1, <2>2 DEF PostInvoice, Invoiced
<1>7. PICK next \in Op :
        /\ Becomes(w, next)
        /\ \/ /\ next.step = "store" /\ invoice'[p] = new
           \/ next.step = "fail"
           \/ next.step = "idle"
        /\ next.step # "idle" => /\ next.payment = p
                                 /\ next.user = op[w].user
                                 /\ next.amount = op[w].amount
        /\ next.payment \in {p, NoPayment}
  <2>1. ASSUME NEW step \in {"store", "fail"}, Goes(w, step)
        PROVE  \E next \in Op : /\ Becomes(w, next)
                                /\ next.step = step
                                /\ next.payment = p
                                /\ next.user = op[w].user
                                /\ next.amount = op[w].amount
    <3> DEFINE next == [op[w] EXCEPT !.step = step]
    <3>1. next \in Op /\ Becomes(w, next)
      BY <1>5, <2>1, OpFacts DEF Step
    <3>2. /\ next.step = step
          /\ next.payment = p
          /\ next.user = op[w].user
          /\ next.amount = op[w].amount
      BY <1>5 DEF Op
    <3> QED BY <3>1, <3>2
  <2>2. Idle \in Op /\ Idle.step = "idle" /\ Idle.payment = NoPayment
    BY <1>5, OpFacts DEF Idle
  <2>3. CASE invoice' = [invoice EXCEPT ![p] = new] /\ Goes(w, "store")
    <3>1. invoice'[p] = new
      BY <1>1, <1>5, <2>3
    <3> QED BY <2>1, <2>3, <3>1
  <2>4. CASE Goes(w, "fail")
    BY <2>1, <2>4
  <2>5. CASE Becomes(w, Idle)
    BY <2>2, <2>5
  <2> QED BY <2>3, <2>4, <2>5 DEF PostInvoice, Invoiced
<1>8. /\ op' \in [Workers -> Op]
      /\ op'[w] = next
      /\ \A v \in Workers \ {w} : op'[v] = op[v]
  BY <1>5, <1>7, OpUpdate
<1>9. invoice'[p].status \in {"none", "pending"}
  BY <1>4, <1>6 DEF NoInvoice
<1> HIDE DEF p, new
<1>10. TypeOK'
  BY <1>3, <1>6, <1>8 DEF Inv, TypeOK
<1>11. FreshInv'
  BY <1>1, <1>2, <1>3, <1>6, <1>7, <1>8, PaymentsAssumption DEF Inv, FreshInv
<1>12. CreationInv'
  <2> SUFFICES ASSUME NEW v \in Workers, op'[v].step \in CreationSteps
      PROVE  Creating(v)'
    BY DEF CreationInv
  <2> QED
    BY <1>1, <1>3, <1>4, <1>6, <1>7, <1>8, PaymentsAssumption
    DEF Inv, CreationInv, Creating, CreationSteps
<1>13. HookInv'
  BY <1>1, <1>3, <1>6, <1>7, <1>8 DEF Inv, HookInv, Handling, HookSteps, NoRow
<1>14. RowsInv'
  <2>1. invoice[p].status = "none"
    BY <1>1 DEF NoInvoice
  <2> QED BY <1>1, <1>3, <1>6, <1>9, <2>1 DEF Inv, RowsInv, RowOK, NoRow
<1> QED BY <1>10, <1>11, <1>12, <1>13, <1>14 DEF Inv

\* The creation ends: its row is committed, or it is not; only a committed
\* pending row can be linked.
LEMMA InvStore ==
  ASSUME Inv, NEW w \in Workers, StorePayment(w) \/ StoreFailure(w)
  PROVE  Inv'
<1> DEFINE p == op[w].payment
           Stored == [status |-> "pending", user |-> op[w].user, external |-> TRUE]
           Failed == [status |-> "failed", user |-> op[w].user, external |-> FALSE]
<1>1. /\ p \in Payments
      /\ op[w].user \in Users
      /\ payment[p] = NoRow
      /\ p \notin links
      /\ op[w].step = "store" => invoice[p].status # "none"
      /\ \A v \in Workers \ {w} : op[v].payment # p
  BY DEF StorePayment, StoreFailure, Inv, CreationInv, Creating, CreationSteps
<1>2. p \in issued
  BY <1>1 DEF Inv, FreshInv
<1>3. /\ Becomes(w, Idle)
      /\ UNCHANGED <<issued, price, repriced, left, invoice, unacked, grants>>
  BY DEF StorePayment, StoreFailure, site
<1>4. /\ op \in [Workers -> Op]
      /\ payment \in [Payments -> Row]
      /\ Idle \in Op /\ Idle.step = "idle" /\ Idle.payment = NoPayment
  BY OpFacts DEF Inv, TypeOK, Idle
<1>5. /\ op' \in [Workers -> Op]
      /\ op'[w] = Idle
      /\ \A v \in Workers \ {w} : op'[v] = op[v]
  BY <1>3, <1>4, OpUpdate
<1>6. /\ Stored \in Row /\ Stored.status = "pending"
      /\ Stored.user \in Users /\ Stored.external
      /\ Failed \in Row /\ Failed.status = "failed"
      /\ Failed.user \in Users /\ ~Failed.external
  BY <1>1 DEF Row
<1>7. \/ /\ payment' = [payment EXCEPT ![p] = Stored]
         /\ links' \in {links, links \union {p}}
      \/ payment' = [payment EXCEPT ![p] = Failed] /\ links' = links
      \/ UNCHANGED <<payment, links>>
  <2>1. CASE StorePayment(w)
    BY <2>1 DEF StorePayment
  <2>2. CASE StoreFailure(w)
    BY <2>2 DEF StoreFailure, site
  <2> QED BY <2>1, <2>2
<1> HIDE DEF Stored, Failed
<1>8. /\ payment' \in [Payments -> Row]
      /\ \A q \in Payments \ {p} : payment'[q] = payment[q]
      /\ \/ payment'[p] = Stored /\ links' \in {links, links \union {p}}
         \/ payment'[p] = Failed /\ links' = links
         \/ payment'[p] = NoRow /\ links' = links
  BY <1>1, <1>4, <1>6, <1>7, Update
<1>9. payment'[p].status \notin {"succeeded", "canceled"}
  BY <1>6, <1>8 DEF NoRow
<1> HIDE DEF p
<1>10. TypeOK'
  BY <1>1, <1>3, <1>5, <1>8 DEF Inv, TypeOK
<1>11. FreshInv'
  BY <1>1, <1>2, <1>3, <1>4, <1>5, <1>8, PaymentsAssumption DEF Inv, FreshInv
<1>12. CreationInv'
  <2> SUFFICES ASSUME NEW v \in Workers, op'[v].step \in CreationSteps
      PROVE  Creating(v)'
    BY DEF CreationInv
  <2>1. v # w /\ op'[v] = op[v] /\ Creating(v)
    BY <1>4, <1>5 DEF CreationSteps, Inv, CreationInv
  <2>2. op[v].payment # p
    BY <1>1, <2>1
  <2> QED BY <1>3, <1>4, <1>5, <1>8, <2>1, <2>2, PaymentsAssumption DEF Creating
<1>13. HookInv'
  <2> SUFFICES ASSUME NEW v \in Workers, op'[v].step \in HookSteps
      PROVE  Handling(v)'
    BY DEF HookInv
  <2>1. v # w /\ op'[v] = op[v] /\ Handling(v)
    BY <1>4, <1>5 DEF HookSteps, Inv, HookInv
  <2>2. op[v].payment # p
    BY <1>1, <2>1
  <2> QED BY <1>3, <1>8, <2>1, <2>2 DEF Handling
<1>14. RowsInv'
  <2> SUFFICES ASSUME NEW q \in Payments PROVE RowOK(q)'
    BY DEF RowsInv
  <2>1. RowOK(q)
    BY DEF Inv, RowsInv
  <2>2. CASE q # p
    BY <1>3, <1>8, <2>1, <2>2 DEF RowOK
  <2>3. CASE q = p
    <3>1. invoice[p].status # "succeeded" /\ p \notin links /\ grants[p] = 0
      BY <1>1, <2>1, <2>3 DEF RowOK, NoRow
    <3> QED BY <1>3, <1>6, <1>8, <1>9, <2>1, <2>3, <3>1 DEF RowOK, NoRow
  <2> QED BY <2>2, <2>3
<1> QED BY <1>10, <1>11, <1>12, <1>13, <1>14 DEF Inv

\* YooKassa closes an invoice, paid or not.
LEMMA InvInvoice ==
  ASSUME Inv, NEW p \in Payments, Pay(p) \/ Cancel(p)
  PROVE  Inv'
<1>1. /\ invoice[p].status = "pending"
      /\ unacked' = unacked \union {p}
      /\ UNCHANGED <<payment, issued, price, repriced, left, links, op, grants>>
  BY DEF Pay, Cancel
<1>2. PICK s \in {"succeeded", "canceled"} :
        /\ invoice' = [invoice EXCEPT ![p].status = s]
        /\ s = "succeeded" => p \in links
  <2>1. CASE Pay(p)
    BY <2>1 DEF Pay
  <2>2. CASE Cancel(p)
    BY <2>2 DEF Cancel
  <2> QED BY <2>1, <2>2
<1> DEFINE new == [invoice[p] EXCEPT !.status = s]
<1>3. invoice \in [Payments -> Invoice]
  BY DEF Inv, TypeOK
<1>4. new \in Invoice /\ new.status = s /\ invoice' = [invoice EXCEPT ![p] = new]
  BY <1>2, <1>3, InvoiceFacts
<1> HIDE DEF new
<1>5. /\ invoice' \in [Payments -> Invoice]
      /\ invoice'[p].status = s
      /\ \A q \in Payments \ {p} : invoice'[q] = invoice[q]
  BY <1>3, <1>4, Update
<1>6. p \in issued
  BY <1>1 DEF Inv, FreshInv, NoInvoice
<1>7. TypeOK'
  BY <1>1, <1>5 DEF Inv, TypeOK
<1>8. FreshInv'
  BY <1>1, <1>5, <1>6 DEF Inv, FreshInv
<1>9. CreationInv'
  <2> SUFFICES ASSUME NEW w \in Workers, op[w].step \in CreationSteps
      PROVE  Creating(w)'
    BY <1>1 DEF CreationInv
  <2>1. Creating(w)
    BY DEF Inv, CreationInv
  <2>2. op[w].step = "post" => op[w].payment # p
    BY <1>1, <2>1 DEF Creating, NoInvoice
  <2> QED BY <1>1, <1>5, <2>1, <2>2 DEF Creating
<1>10. HookInv'
  <2> SUFFICES ASSUME NEW w \in Workers, op[w].step \in HookSteps
      PROVE  Handling(w)'
    BY <1>1 DEF HookInv
  <2>1. Handling(w)
    BY DEF Inv, HookInv
  <2> QED BY <1>1, <1>5, <2>1 DEF Handling
<1>11. RowsInv'
  <2> SUFFICES ASSUME NEW q \in Payments PROVE RowOK(q)'
    BY DEF RowsInv
  <2>1. RowOK(q)
    BY DEF Inv, RowsInv
  <2> QED BY <1>1, <1>2, <1>5, <2>1 DEF RowOK
<1> QED BY <1>7, <1>8, <1>9, <1>10, <1>11 DEF Inv

\* The web process takes up a hook.
LEMMA InvReceive ==
  ASSUME Inv, NEW p \in Payments, Receive(p)
  PROVE  Inv'
<1> USE WorkersAssumption DEF Workers
<1> DEFINE next == [Idle EXCEPT
       !.payment = p,
       !.step = IF invoice[p].status = "canceled" THEN "cancel" ELSE "check",
       !.amount = invoice[p].amount]
<1>1. /\ op[Web] = Idle
      /\ payment[p].status # "none"
      /\ Becomes(Web, next)
      /\ UNCHANGED <<payment, issued, price, repriced, left, invoice, links, unacked, grants>>
  BY DEF Receive, CanLog, hooks, site
<1>2. op \in [Workers -> Op] /\ invoice \in [Payments -> Invoice]
  BY DEF Inv, TypeOK
<1>3. invoice[p].amount \in Prices \union {0}
  BY <1>2, InvoiceFacts
<1>4. next \in Op
  BY <1>3 DEF Idle, Op, Step
<1>5. /\ next.payment = p
      /\ next.step \in {"cancel", "check"}
      /\ next.step = "cancel" => invoice[p].status = "canceled"
      /\ next.step = "check" => invoice[p].status # "canceled"
  BY DEF Idle
<1> HIDE DEF next
<1>6. /\ op' \in [Workers -> Op]
      /\ op'[Web] = next
      /\ \A v \in Workers \ {Web} : op'[v] = op[v]
  BY <1>1, <1>2, <1>4, OpUpdate
<1>7. invoice[p].status \in {"succeeded", "canceled"}
  BY DEF Receive, CanLog, Inv, RowsInv, RowOK
<1>8. TypeOK'
  BY <1>1, <1>6 DEF Inv, TypeOK
<1>9. FreshInv'
  <2>1. p \in issued
    BY <1>1 DEF Inv, FreshInv, NoRow
  <2> QED BY <1>1, <1>5, <1>6, <2>1 DEF Inv, FreshInv
<1>10. CreationInv'
  <2> SUFFICES ASSUME NEW v \in Workers, op'[v].step \in CreationSteps
      PROVE  Creating(v)'
    BY DEF CreationInv
  <2>1. v # Web /\ op'[v] = op[v] /\ Creating(v)
    BY <1>5, <1>6 DEF CreationSteps, Inv, CreationInv
  <2>2. op[v].payment # p
    BY <1>1, <2>1 DEF Creating, NoRow
  <2> QED BY <1>1, <1>5, <1>6, <2>1, <2>2 DEF Creating
<1>11. HookInv'
  <2> SUFFICES ASSUME NEW v \in Workers, op'[v].step \in HookSteps
      PROVE  Handling(v)'
    BY DEF HookInv
  <2>1. CASE v = Web
    BY <1>1, <1>5, <1>6, <1>7, <2>1 DEF Handling
  <2>2. CASE v # Web
    BY <1>1, <1>6, <2>2 DEF Handling, Inv, HookInv
  <2> QED BY <2>1, <2>2
<1>12. RowsInv'
  BY <1>1 DEF Inv, RowsInv, RowOK
<1> QED BY <1>8, <1>9, <1>10, <1>11, <1>12 DEF Inv

\* The web process changes the status of the row it works on: of a pending
\* row, to what its invoice says.
LEMMA InvClose ==
  ASSUME Inv, MarkCanceled \/ FulfillPayment
  PROVE  Inv'
<1> USE WorkersAssumption DEF Workers
<1> DEFINE p == op[Web].payment
<1>1. op[Web].step \in {"cancel", "activate"} /\ Handling(Web)
  BY DEF MarkCanceled, FulfillPayment, Inv, HookInv, HookSteps
<1>2. /\ p \in Payments
      /\ payment[p].status # "none"
      /\ p \in issued
  BY <1>1 DEF Handling, Inv, FreshInv, NoRow
<1>3. /\ op \in [Workers -> Op]
      /\ payment \in [Payments -> Row]
      /\ left \in [Users -> {"none", "short", "long"}]
      /\ grants \in [Payments -> Nat]
  BY DEF Inv, TypeOK
<1>4. UNCHANGED <<issued, price, repriced, invoice, links, unacked>>
  BY DEF MarkCanceled, FulfillPayment, site
<1>5. PICK next \in Op :
        /\ Becomes(Web, next)
        /\ next.step \in {"idle", "answer", "provision"}
        /\ next.step = "provision" => op[Web].step = "activate"
        /\ next.step # "idle" => next.payment = p
        /\ next.payment \in {p, NoPayment}
  <2>1. Idle \in Op /\ Idle.step = "idle" /\ Idle.payment = NoPayment
    BY <1>3, OpFacts DEF Idle
  <2>2. ASSUME NEW step \in {"answer", "provision"}, Goes(Web, step)
        PROVE  \E next \in Op : /\ Becomes(Web, next)
                                /\ next.step = step
                                /\ next.payment = p
    <3> DEFINE next == [op[Web] EXCEPT !.step = step]
    <3>1. next \in Op /\ Becomes(Web, next)
      BY <1>3, <2>2, OpFacts DEF Step
    <3>2. next.step = step /\ next.payment = p
      BY <1>3 DEF Op
    <3> QED BY <3>1, <3>2
  <2>3. \/ Becomes(Web, Idle)
        \/ Goes(Web, "answer")
        \/ Goes(Web, "provision") /\ op[Web].step = "activate"
    BY DEF MarkCanceled, FulfillPayment
  <2> QED BY <2>1, <2>2, <2>3
<1>6. /\ op' \in [Workers -> Op]
      /\ op'[Web] = next
      /\ \A v \in Workers \ {Web} : op'[v] = op[v]
  BY <1>3, <1>5, OpUpdate
<1>7. \/ UNCHANGED <<payment, left, grants>>
      \/ /\ payment[p].status = "pending"
         /\ invoice[p].status = "canceled"
         /\ payment' = [payment EXCEPT ![p].status = "canceled"]
         /\ UNCHANGED <<left, grants>>
      \/ /\ payment[p].status = "pending"
         /\ invoice[p].status = "succeeded"
         /\ payment' = [payment EXCEPT ![p].status = "succeeded"]
         /\ grants' = [grants EXCEPT ![p] = @ + 1]
         /\ left' = [left EXCEPT ![payment[p].user] = "long"]
  <2>1. CASE MarkCanceled
    BY <1>1, <2>1 DEF MarkCanceled, Handling
  <2>2. CASE FulfillPayment
    BY <1>1, <2>2 DEF FulfillPayment, Handling
  <2> QED BY <2>1, <2>2
<1>8. grants[p] \in Nat /\ (payment[p].status = "pending" => grants[p] = 0)
  BY <1>2, <1>3 DEF Inv, RowsInv, RowOK
<1>9. /\ payment' \in [Payments -> Row]
      /\ \A q \in Payments \ {p} : payment'[q] = payment[q]
      /\ payment'[p].user = payment[p].user
      /\ payment'[p].external = payment[p].external
      /\ payment'[p].status # "none"
      /\ \/ payment'[p].status = payment[p].status /\ grants' = grants
         \/ /\ payment[p].status = "pending"
            /\ payment'[p].status = "canceled"
            /\ invoice[p].status = "canceled"
            /\ grants' = grants
         \/ /\ payment[p].status = "pending"
            /\ payment'[p].status = "succeeded"
            /\ invoice[p].status = "succeeded"
            /\ grants' = [grants EXCEPT ![p] = @ + 1]
  <2>1. ASSUME NEW s \in {"canceled", "succeeded"},
               payment' = [payment EXCEPT ![p].status = s]
        PROVE  /\ payment' \in [Payments -> Row]
               /\ \A q \in Payments \ {p} : payment'[q] = payment[q]
               /\ payment'[p].user = payment[p].user
               /\ payment'[p].external = payment[p].external
               /\ payment'[p].status = s
    <3> HIDE DEF p
    <3> DEFINE new == [payment[p] EXCEPT !.status = s]
    <3>1. /\ new \in Row
          /\ new.status = s
          /\ new.user = payment[p].user
          /\ new.external = payment[p].external
          /\ payment' = [payment EXCEPT ![p] = new]
      BY <1>2, <1>3, <2>1, RowFacts
    <3> HIDE DEF new
    <3> QED BY <1>2, <1>3, <3>1, Update
  <2> HIDE DEF p
  <2> QED BY <1>2, <1>3, <1>7, <2>1
<1>10. /\ grants' \in [Payments -> Nat]
       /\ \A q \in Payments \ {p} : grants'[q] = grants[q]
       /\ grants'[p] = IF payment'[p].status = "succeeded" THEN 1 ELSE 0
  <2>1. grants[p] = IF payment[p].status = "succeeded" THEN 1 ELSE 0
    BY <1>2 DEF Inv, RowsInv, RowOK
  <2> HIDE DEF p
  <2> QED BY <1>2, <1>3, <1>8, <1>9, <2>1
<1>11. left' \in [Users -> {"none", "short", "long"}]
  <2> HIDE DEF p
  <2> QED BY <1>3, <1>7
<1>12. TypeOK'
  BY <1>4, <1>6, <1>9, <1>10, <1>11 DEF Inv, TypeOK
<1> HIDE DEF p
<1>13. FreshInv'
  BY <1>2, <1>4, <1>5, <1>6, <1>9, PaymentsAssumption DEF Inv, FreshInv
<1>14. CreationInv'
  <2> SUFFICES ASSUME NEW v \in Workers, op'[v].step \in CreationSteps
      PROVE  Creating(v)'
    BY DEF CreationInv
  <2>1. v # Web /\ op'[v] = op[v] /\ Creating(v)
    BY <1>5, <1>6 DEF CreationSteps, Inv, CreationInv
  <2>2. op[v].payment # p
    BY <1>2, <2>1 DEF Creating, NoRow
  <2> QED BY <1>4, <1>5, <1>6, <1>9, <2>1, <2>2, PaymentsAssumption DEF Creating
<1>15. HookInv'
  <2> SUFFICES ASSUME NEW v \in Workers, op'[v].step \in HookSteps
      PROVE  Handling(v)'
    BY DEF HookInv
  <2>1. v = Web
    BY <1>6 DEF Inv, HookInv, Handling
  <2>2. next.payment = p
    BY <1>5, <1>6, <2>1 DEF HookSteps
  <2>3. next.step = "provision" => invoice[p].status = "succeeded"
    BY <1>1, <1>5 DEF Handling, p
  <2> QED BY <1>2, <1>4, <1>5, <1>6, <1>9, <2>1, <2>2, <2>3 DEF Handling
<1>16. RowsInv'
  <2> SUFFICES ASSUME NEW q \in Payments PROVE RowOK(q)'
    BY DEF RowsInv
  <2>1. RowOK(q)
    BY DEF Inv, RowsInv
  <2>2. CASE q # p
    BY <1>4, <1>9, <1>10, <2>1, <2>2 DEF RowOK
  <2>3. CASE q = p
    BY <1>2, <1>4, <1>9, <1>10, <2>1, <2>3 DEF RowOK
  <2> QED BY <2>2, <2>3
<1> QED BY <1>12, <1>13, <1>14, <1>15, <1>16 DEF Inv

\* The hook is answered.
LEMMA InvAnswer ==
  ASSUME Inv, Answer
  PROVE  Inv'
<1>1. /\ Becomes(Web, Idle)
      /\ unacked' \subseteq unacked
      /\ UNCHANGED <<payment, issued, price, repriced, left, invoice, links, grants>>
  BY DEF Answer, site
<1>2. op \in [Workers -> Op] /\ Web \in Workers
  BY DEF Inv, TypeOK, Workers
<1>3. Idle \in Op /\ Idle.step = "idle" /\ Idle.payment = NoPayment
  BY <1>2, OpFacts DEF Idle
<1>4. /\ op' \in [Workers -> Op]
      /\ op'[Web] = Idle
      /\ \A v \in Workers \ {Web} : op'[v] = op[v]
  BY <1>1, <1>2, <1>3, OpUpdate
<1>5. TypeOK'
  BY <1>1, <1>4 DEF Inv, TypeOK
<1>6. FreshInv'
  BY <1>1, <1>3, <1>4, PaymentsAssumption DEF Inv, FreshInv
<1>7. CreationInv'
  BY <1>1, <1>3, <1>4, PaymentsAssumption DEF Inv, CreationInv, Creating, CreationSteps
<1>8. HookInv'
  BY <1>1, <1>3, <1>4 DEF Inv, HookInv, Handling, HookSteps
<1>9. RowsInv'
  BY <1>1 DEF Inv, RowsInv, RowOK
<1> QED BY <1>5, <1>6, <1>7, <1>8, <1>9 DEF Inv

\* Every step of the system keeps the invariant.
LEMMA InvStep == Inv /\ [Next]_vars => Inv'
<1> SUFFICES ASSUME Inv, [Next]_vars PROVE Inv'
  OBVIOUS
<1>1. CASE Reprice \/ \E u \in Users : TimePasses(u)
  BY <1>1, InvClock
<1>2. CASE \E w \in Workers, u \in Users : CreatePayment(w, u)
  BY <1>2, InvCreate
<1>3. CASE \E w \in Workers : Creation(w)
  BY <1>3, InvPost, InvStore DEF Creation
<1>4. CASE (\E w \in Workers : Crash(w)) \/ Fulfill \/ Provision
  BY <1>4, InvOpOnly
<1>5. CASE \E p \in Payments : Pay(p) \/ Cancel(p)
  BY <1>5, InvInvoice
<1>6. CASE \E p \in Payments : Receive(p)
  BY <1>6, InvReceive
<1>7. CASE MarkCanceled \/ FulfillPayment
  BY <1>7, InvClose
<1>8. CASE Answer
  BY <1>8, InvAnswer
<1>9. CASE UNCHANGED vars
  BY <1>9 DEF vars, Inv, TypeOK, FreshInv, CreationInv, Creating, HookInv,
              Handling, RowsInv, RowOK
<1> QED
  BY <1>1, <1>2, <1>3, <1>4, <1>5, <1>6, <1>7, <1>8, <1>9 DEF Next, WebHook

\* The invariant holds in every state the system reaches.
THEOREM InvCorrect == Spec => []Inv
BY InvInit, InvStep, PTL DEF Spec

\* Tables, invoices and the workers' states stay well-formed.
THEOREM PaymentsTypeCorrect == Spec => []TypeOK
<1>1. Inv => TypeOK
  BY DEF Inv
<1> QED BY <1>1, InvCorrect, PTL

\* Whatever the user can pay is on record with its external_id
\* (_create_yookassa_payment returns the link after the commit).
THEOREM PayableIsRecordedCorrect == Spec => []PayableIsRecorded
<1>1. Inv => PayableIsRecorded
  <2> SUFFICES ASSUME Inv, NEW p \in links
      PROVE  /\ payment[p].external
             /\ payment[p].user \in Users
             /\ payment[p].status \in {"pending", "succeeded", "canceled"}
    BY DEF PayableIsRecorded
  <2>1. p \in Payments
    BY DEF Inv, TypeOK
  <2> QED BY <2>1 DEF Inv, RowsInv, RowOK
<1> QED BY <1>1, InvCorrect, PTL

\* No row says more than YooKassa does, and no money is taken for a row that
\* failed or was rolled back.
THEOREM RowAgreesCorrect == Spec => []RowAgreesWithInvoice
<1>1. Inv => RowAgreesWithInvoice
  <2> SUFFICES ASSUME Inv, NEW p \in Payments
      PROVE  /\ payment[p].status \in {"succeeded", "canceled"}
                  => invoice[p].status = payment[p].status
             /\ invoice[p].status = "succeeded"
                  => payment[p].status \in {"pending", "succeeded"}
    BY DEF RowAgreesWithInvoice
  <2>1. RowOK(p)
    BY DEF Inv, RowsInv
  <2> QED BY <2>1 DEF RowOK
<1> QED BY <1>1, InvCorrect, PTL

-----------------------------------------------------------------------------
(* Payments implements PaymentLedger.                                      *)

money == [p \in Payments |-> Money(p)]

\* The start of the system is a start of the ledger.
LEMMA LedgerInit == Init => Ledger!Init
BY DEF Init, Ledger!Init, Money, NoInvoice

\* Changing the ledger at one payment.
LEMMA MoneyUpdate ==
  ASSUME NEW p \in Payments, NEW s, Money(p)' = s,
         \A q \in Payments \ {p} : Money(q)' = Money(q)
  PROVE  money' = [money EXCEPT ![p] = s]
BY DEF money

\* Every step of the system is a step of the ledger or leaves it alone.
LEMMA LedgerStep ==
  Inv /\ Inv' /\ [Next]_vars => [Ledger!Next]_(Ledger!ledger)
<1> SUFFICES ASSUME Inv, Inv', [Next]_vars
    PROVE  Ledger!Next \/ (money' = money /\ grants' = grants)
  BY DEF Ledger!ledger, money
<1> DEFINE Same == money' = money /\ grants' = grants
<1>1. ASSUME UNCHANGED <<invoice, links, grants>> PROVE Same
  BY <1>1 DEF money, Money
<1>2. CASE Reprice \/ (\E u \in Users : TimePasses(u))
  BY <1>1, <1>2 DEF Reprice, TimePasses, hooks, site
<1>3. CASE \E w \in Workers, u \in Users : CreatePayment(w, u)
  BY <1>1, <1>3 DEF CreatePayment, hooks
<1>4. ASSUME NEW w \in Workers, PostInvoice(w) PROVE Same
  <2> DEFINE p == op[w].payment
  <2>1. p \in Payments /\ p \notin links /\ invoice[p] = NoInvoice
    BY <1>4 DEF PostInvoice, Inv, CreationInv, Creating, CreationSteps
  <2>2. links' = links /\ grants' = grants /\ invoice \in [Payments -> Invoice]
    BY <1>4 DEF PostInvoice, hooks, Inv, TypeOK
  <2>3. /\ \A q \in Payments \ {p} : invoice'[q] = invoice[q]
        /\ invoice'[p].status \in {"none", "pending"}
    BY <1>4, <2>1, <2>2 DEF PostInvoice, Invoiced, NoInvoice
  <2> HIDE DEF p
  <2>4. \A q \in Payments : Money(q)' = Money(q)
    BY <2>1, <2>2, <2>3 DEF Money, NoInvoice
  <2> QED BY <2>2, <2>4 DEF money
<1>5. ASSUME NEW w \in Workers, StorePayment(w) PROVE Ledger!Next \/ Same
  <2>1. PICK p \in Payments : p = op[w].payment /\ p \notin links
    BY <1>5 DEF StorePayment, Inv, CreationInv, Creating, CreationSteps
  <2>2. /\ invoice' = invoice /\ grants' = grants
        /\ links' \in {links, links \union {p}}
    BY <1>5, <2>1 DEF StorePayment
  <2>3. invoice[p].status # "none" /\ invoice[p].status # "succeeded"
    BY <1>5, <2>1 DEF StorePayment, Inv, CreationInv, Creating, CreationSteps,
                      RowsInv, RowOK
  <2>4. invoice[p].status \in {"pending", "canceled"}
    BY <2>1, <2>3, InvoiceFacts DEF Inv, TypeOK
  <2>5. \A q \in Payments \ {p} : Money(q)' = Money(q)
    BY <2>2 DEF Money
  <2>6. CASE invoice[p].status = "pending" /\ links' = links \union {p}
    <3>1. money[p] = "none" /\ Money(p)' = "offered"
      BY <2>1, <2>2, <2>6 DEF Money, money
    <3>2. money' = [money EXCEPT ![p] = "offered"]
      BY <2>1, <2>5, <3>1, MoneyUpdate
    <3> QED BY <2>1, <2>2, <3>1, <3>2 DEF Ledger!Next, Ledger!Offer, money
  <2>7. CASE invoice[p].status = "canceled" \/ links' = links
    <3>1. Money(p)' = Money(p)
      BY <2>1, <2>2, <2>7 DEF Money
    <3> QED BY <2>2, <2>5, <3>1 DEF money
  <2> QED BY <2>2, <2>4, <2>6, <2>7
<1>6. ASSUME NEW w \in Workers, StoreFailure(w) \/ Crash(w) PROVE Same
  BY <1>1, <1>6 DEF StoreFailure, Crash, hooks, site
<1>7. ASSUME NEW p \in Payments, Pay(p) \/ Cancel(p) PROVE Ledger!Next
  <2>1. /\ invoice[p].status = "pending" /\ links' = links /\ grants' = grants
        /\ invoice \in [Payments -> Invoice]
    BY <1>7 DEF Pay, Cancel, Inv, TypeOK
  <2>2. \A q \in Payments \ {p} : Money(q)' = Money(q)
    BY <1>7, <2>1 DEF Pay, Cancel, Money
  <2>3. CASE Pay(p)
    <3>1. p \in links /\ invoice'[p].status = "succeeded"
      BY <2>1, <2>3, InvoiceFacts DEF Pay
    <3>2. money[p] = "offered" /\ Money(p)' = "paid"
      BY <2>1, <3>1 DEF Money, money
    <3>3. money' = [money EXCEPT ![p] = "paid"]
      BY <2>2, <3>2, MoneyUpdate
    <3> QED BY <2>1, <3>2, <3>3 DEF Ledger!Next, Ledger!Pay, money
  <2>4. CASE Cancel(p)
    <3>1. invoice'[p].status = "canceled"
      BY <2>1, <2>4, InvoiceFacts DEF Cancel
    <3>2. money[p] \in {"none", "offered"} /\ Money(p)' = "void"
      BY <2>1, <3>1 DEF Money, money
    <3>3. money' = [money EXCEPT ![p] = "void"]
      BY <2>2, <3>2, MoneyUpdate
    <3> QED BY <2>1, <3>2, <3>3 DEF Ledger!Next, Ledger!Withdraw, money
  <2> QED BY <1>7, <2>3, <2>4
<1>8. ASSUME NEW p \in Payments, Receive(p) PROVE Same
  BY <1>1, <1>8 DEF Receive, hooks, site
<1>9. CASE MarkCanceled \/ Fulfill \/ Provision \/ Answer
  BY <1>1, <1>9 DEF MarkCanceled, Fulfill, Provision, Answer, hooks, site
<1>10. CASE FulfillPayment
  <2> DEFINE p == op[Web].payment
  <2>1. p \in Payments /\ invoice[p].status = "succeeded" /\ payment[p].status = "pending"
    BY <1>10, WorkersAssumption
    DEF FulfillPayment, Workers, Inv, HookInv, Handling, HookSteps
  <2>2. grants[p] = 0 /\ grants \in [Payments -> Nat]
    BY <2>1 DEF Inv, TypeOK, RowsInv, RowOK
  <2>3. money' = money /\ money[p] = "paid"
    BY <1>10, <2>1 DEF FulfillPayment, site, money, Money
  <2>4. grants' = grants \/ grants' = [grants EXCEPT ![p] = @ + 1]
    BY <1>10 DEF FulfillPayment
  <2> HIDE DEF p
  <2>5. CASE grants' = [grants EXCEPT ![p] = @ + 1]
    <3>1. grants' = [grants EXCEPT ![p] = 1]
      BY <2>1, <2>2, <2>5
    <3> QED BY <2>1, <2>2, <2>3, <3>1 DEF Ledger!Next, Ledger!Grant, money
  <2> QED BY <2>3, <2>4, <2>5
<1>11. CASE UNCHANGED vars
  BY <1>1, <1>11 DEF vars
<1> QED
  BY <1>2, <1>3, <1>4, <1>5, <1>6, <1>7, <1>8, <1>9, <1>10, <1>11
  DEF Next, Creation, WebHook

\* Whatever hooks are repeated, commits fail and processes stop: only offered
\* invoices are paid, and each payment received grants its plan at most once.
THEOREM LedgerCorrect == Spec => ImplementsLedger
BY LedgerInit, LedgerStep, InvCorrect, PTL DEF Spec, ImplementsLedger, Ledger!Spec

-----------------------------------------------------------------------------
(* What a 200 means, as long as the price is not changed.                  *)

\* An amount agreed on under the present price is the price; a hook carries the
\* amount of its invoice; before it is answered the plan is activated.
SettledInv ==
  /\ \A p \in Payments \ repriced :
       /\ invoice[p].status # "none" => invoice[p].amount = price
       /\ \A w \in Workers :
            op[w].step = "post" /\ op[w].payment = p => op[w].amount = price
  /\ op[Web].step = "check" => op[Web].amount = invoice[op[Web].payment].amount
  /\ op[Web].step \in {"provision", "answer"}
       => \/ payment[op[Web].payment].status = "succeeded"
          \/ invoice[op[Web].payment].status = "canceled"
          \/ op[Web].payment \in repriced
  /\ \A p \in Payments \ repriced :
       invoice[p].status = "succeeded" /\ p \notin unacked
         => payment[p].status = "succeeded"

\* A row that says succeeded goes on saying so.
LEMMA SucceededStays ==
  ASSUME Inv, Inv', [Next]_vars, NEW p \in Payments, payment[p].status = "succeeded"
  PROVE  payment'[p].status = "succeeded"
<1>1. payment \in [Payments -> Row]
  BY DEF Inv, TypeOK
<1>2. ASSUME NEW w \in Workers, StorePayment(w) \/ StoreFailure(w)
      PROVE  payment'[p].status = "succeeded"
  <2>1. op[w].payment # p
    BY <1>2 DEF StorePayment, StoreFailure, Inv, CreationInv, Creating,
                CreationSteps, NoRow
  <2> QED BY <1>1, <1>2, <2>1 DEF StorePayment, StoreFailure
<1>3. CASE MarkCanceled
  BY <1>1, <1>3 DEF MarkCanceled
<1>4. CASE FulfillPayment
  <2>1. op[Web].payment # p
    BY <1>4, WorkersAssumption
    DEF FulfillPayment, Workers, Inv, HookInv, Handling, HookSteps
  <2> QED BY <1>1, <1>4, <2>1 DEF FulfillPayment
<1>5. CASE UNCHANGED payment
  BY <1>5
<1> QED
  BY <1>2, <1>3, <1>4, <1>5
  DEF Next, Creation, WebHook, vars, hooks, site, Reprice, TimePasses, CreatePayment,
      PostInvoice, Crash, Pay, Cancel, Receive, Fulfill, Provision, Answer

\* Every step keeps SettledInv.
LEMMA SettledStep ==
  ASSUME Inv, Inv', SettledInv, [Next]_vars
  PROVE  SettledInv'
<1> USE WorkersAssumption DEF Workers
<1>1. /\ op \in [Workers -> Op]
      /\ invoice \in [Payments -> Invoice]
      /\ Web \in Workers
      /\ price \in Prices
  BY DEF Inv, TypeOK
<1>2. \A p \in Payments : payment[p].status = "succeeded"
                            => payment'[p].status = "succeeded"
  BY SucceededStays
<1>3. op[Web].step \in HookSteps => Handling(Web)
  BY DEF Inv, HookInv
<1>4. ASSUME UNCHANGED <<invoice, op, unacked, price, repriced>> PROVE SettledInv'
  BY <1>2, <1>3, <1>4 DEF SettledInv, HookSteps, Handling
<1>5. ASSUME NEW w \in Workers, NEW next \in Op, Becomes(w, next),
             next.step \notin HookSteps, UNCHANGED <<invoice, unacked, price, repriced>>,
             next.step = "post" => next.amount = price
      PROVE  SettledInv'
  <2>1. /\ op'[w] = next
        /\ \A v \in Workers \ {w} : op'[v] = op[v]
    BY <1>1, <1>5, OpUpdate
  <2> QED BY <1>2, <1>3, <1>5, <2>1 DEF SettledInv, HookSteps, Handling
<1>6. Idle \in Op /\ Idle.step = "idle"
  BY <1>1, OpFacts DEF Idle
<1>7. CASE \E u \in Users : TimePasses(u)
  BY <1>4, <1>7 DEF TimePasses, hooks, site
<1>7a. CASE Reprice
  <2>1. /\ repriced' = repriced \union issued
        /\ UNCHANGED <<payment, invoice, op, unacked>>
    BY <1>7a DEF Reprice, hooks
  <2>2. \A p \in Payments \ repriced' :
          invoice[p] = NoInvoice /\ \A w \in Workers : op[w].payment # p
    BY <2>1 DEF Inv, FreshInv
  <2> QED BY <1>3, <2>1, <2>2 DEF SettledInv, NoInvoice, HookSteps, Handling
<1>8. ASSUME NEW w \in Workers, NEW u \in Users, CreatePayment(w, u) PROVE SettledInv'
  <2>1. PICK p \in Payments :
          Becomes(w, [step |-> "post", user |-> u, payment |-> p, amount |-> price])
    BY <1>8 DEF CreatePayment
  <2>2. [step |-> "post", user |-> u, payment |-> p, amount |-> price] \in Op
    BY <1>1 DEF Op, Step
  <2> QED BY <1>5, <1>8, <2>1, <2>2 DEF CreatePayment, hooks, HookSteps
<1>9. ASSUME NEW w \in Workers, PostInvoice(w) PROVE SettledInv'
  <2>1. PICK p \in Payments : /\ p = op[w].payment
                              /\ invoice[p] = NoInvoice
                              /\ op[w].step = "post"
                              /\ payment[p] = NoRow
    BY <1>9 DEF PostInvoice, Inv, CreationInv, Creating, CreationSteps
  <2>2. UNCHANGED <<unacked, price, repriced>>
    BY <1>9 DEF PostInvoice, hooks
  <2>3. /\ \A q \in Payments \ {p} : invoice'[q] = invoice[q]
        /\ invoice'[p].status \in {"none", "pending"}
        /\ invoice'[p].status # "none" => invoice'[p].amount = op[w].amount
    BY <1>1, <1>9, <2>1 DEF PostInvoice, Invoiced, NoInvoice
  <2>4. PICK next \in Op : Becomes(w, next) /\ next.step \notin HookSteps \union {"post"}
    <3>1. ASSUME NEW step \in {"store", "fail"}, Goes(w, step)
          PROVE  \E next \in Op : /\ Becomes(w, next)
                                 /\ next.step \notin HookSteps \union {"post"}
      <4> DEFINE next == [op[w] EXCEPT !.step = step]
      <4>1. next \in Op /\ Becomes(w, next)
        BY <1>1, <3>1, OpFacts DEF Step
      <4>2. next.step = step
        BY <1>1 DEF Op
      <4> QED BY <4>1, <4>2 DEF HookSteps
    <3> QED BY <1>6, <1>9, <3>1 DEF PostInvoice, HookSteps
  <2>5. /\ op'[w] = next
        /\ \A v \in Workers \ {w} : op'[v] = op[v]
    BY <1>1, <2>4, OpUpdate
  <2>6. op[Web].step \in HookSteps => op[Web].payment # p
    BY <1>3, <2>1 DEF Handling, NoRow
  <2>7. p \notin repriced => op[w].amount = price
    BY <2>1 DEF SettledInv
  <2>8. \A q \in Payments \ repriced' :
          /\ invoice'[q].status # "none" => invoice'[q].amount = price'
          /\ \A v \in Workers :
               op'[v].step = "post" /\ op'[v].payment = q => op'[v].amount = price'
    BY <2>2, <2>3, <2>4, <2>5, <2>7 DEF SettledInv
  <2>9. /\ op'[Web].step \in HookSteps => op'[Web] = op[Web]
        /\ op[Web].step \in HookSteps =>
             invoice'[op[Web].payment] = invoice[op[Web].payment]
    BY <1>3, <2>3, <2>4, <2>5, <2>6 DEF Handling
  <2> QED BY <1>2, <1>3, <2>2, <2>3, <2>8, <2>9 DEF SettledInv, HookSteps, Handling
<1>10. ASSUME NEW w \in Workers, StorePayment(w) \/ StoreFailure(w) \/ Crash(w)
       PROVE  SettledInv'
  BY <1>5, <1>6, <1>10 DEF StorePayment, StoreFailure, Crash, hooks, site, HookSteps
<1>11. ASSUME NEW p \in Payments, Pay(p) \/ Cancel(p) PROVE SettledInv'
  <2>1. /\ invoice[p].status = "pending"
        /\ unacked' = unacked \union {p}
        /\ UNCHANGED <<op, price, repriced>>
    BY <1>11 DEF Pay, Cancel
  <2>2. PICK s \in {"succeeded", "canceled"} : invoice' = [invoice EXCEPT ![p].status = s]
    BY <1>11 DEF Pay, Cancel
  <2>3. /\ \A q \in Payments \ {p} : invoice'[q] = invoice[q]
        /\ invoice'[p].status = s
        /\ invoice'[p].amount = invoice[p].amount
    BY <1>1, <2>2 DEF Invoice
  <2>4. op[Web].step \in {"check", "provision", "answer"} => op[Web].payment \in Payments
    BY <1>3 DEF HookSteps, Handling
  <2>5. op[Web].step = "check" => op[Web].payment # p
    BY <1>3, <2>1 DEF HookSteps, Handling
  <2> QED BY <1>2, <2>1, <2>3, <2>4, <2>5 DEF SettledInv
<1>12. ASSUME NEW p \in Payments, Receive(p) PROVE SettledInv'
  <2> DEFINE next == [Idle EXCEPT
         !.payment = p,
         !.step = IF invoice[p].status = "canceled" THEN "cancel" ELSE "check",
         !.amount = invoice[p].amount]
  <2>1. Becomes(Web, next) /\ UNCHANGED <<payment, invoice, unacked, price, repriced>>
    BY <1>12 DEF Receive, hooks, site
  <2>2. /\ next.step \in {"cancel", "check"}
        /\ next.payment = p
        /\ next.amount = invoice[p].amount
    BY DEF Idle
  <2>3. op'[Web] = next /\ \A v \in Workers \ {Web} : op'[v] = op[v]
    BY <1>1, <2>1 DEF Becomes
  <2> HIDE DEF next
  <2> QED BY <2>1, <2>2, <2>3 DEF SettledInv
<1>13. ASSUME NEW step \in {"activate", "provision", "answer"}, Goes(Web, step),
              UNCHANGED <<invoice, unacked, price, repriced>>,
              op[Web].step \in HookSteps,
              step \in {"provision", "answer"} =>
                \/ payment'[op[Web].payment].status = "succeeded"
                \/ invoice[op[Web].payment].status = "canceled"
                \/ op[Web].payment \in repriced
       PROVE  SettledInv'
  <2>1. /\ op'[Web].step = step /\ op'[Web].payment = op[Web].payment
        /\ \A v \in Workers \ {Web} : op'[v] = op[v]
    BY <1>1, <1>13 DEF Goes, Op
  <2> QED BY <1>2, <1>13, <2>1 DEF SettledInv
<1>14. CASE MarkCanceled
  <2>1. op[Web].step = "cancel" /\ UNCHANGED <<invoice, unacked, price, repriced>>
    BY <1>14 DEF MarkCanceled, site
  <2>2. invoice[op[Web].payment].status = "canceled"
    BY <1>3, <2>1 DEF HookSteps, Handling
  <2>3. Goes(Web, "answer") \/ Becomes(Web, Idle)
    BY <1>14 DEF MarkCanceled
  <2> QED BY <1>1, <1>5, <1>6, <1>13, <2>1, <2>2, <2>3 DEF HookSteps
<1>15. CASE Fulfill
  <2>1. /\ op[Web].step = "check"
        /\ UNCHANGED <<payment, invoice, unacked, price, repriced>>
    BY <1>15 DEF Fulfill, hooks, site
  <2>2. /\ op[Web].payment \in Payments
        /\ invoice[op[Web].payment].status = "succeeded"
        /\ payment[op[Web].payment].status # "none"
    BY <1>3, <2>1 DEF HookSteps, Handling
  <2>3. AmountMatches \/ op[Web].payment \in repriced
    BY <1>1, <2>1, <2>2 DEF SettledInv, AmountMatches
  <2>4. payment[op[Web].payment].status \in {"pending", "succeeded"}
    BY <2>2 DEF Inv, RowsInv, RowOK
  <2>5. \/ Goes(Web, "activate")
        \/ Becomes(Web, Idle)
        \/ /\ Goes(Web, "answer")
           /\ \/ payment[op[Web].payment].status = "succeeded"
              \/ op[Web].payment \in repriced
    BY <1>15, <2>3, <2>4 DEF Fulfill
  <2> QED BY <1>1, <1>5, <1>6, <1>13, <2>1, <2>5 DEF HookSteps
<1>16. CASE FulfillPayment
  <2>1. op[Web].step = "activate" /\ UNCHANGED <<invoice, unacked, price, repriced>>
    BY <1>16 DEF FulfillPayment, site
  <2>2. op[Web].payment \in Payments /\ payment \in [Payments -> Row]
    BY <1>3, <2>1 DEF HookSteps, Handling, Inv, TypeOK
  <2>3. \/ Becomes(Web, Idle)
        \/ Goes(Web, "provision") /\ payment'[op[Web].payment].status = "succeeded"
    <3>1. \/ Becomes(Web, Idle)
          \/ /\ Goes(Web, "provision")
             /\ payment' = [payment EXCEPT ![op[Web].payment].status = "succeeded"]
      BY <1>16 DEF FulfillPayment
    <3> QED BY <2>2, <3>1 DEF Row
  <2> QED BY <1>1, <1>5, <1>6, <1>13, <2>1, <2>3 DEF HookSteps
<1>17. CASE Provision
  <2>1. /\ op[Web].step = "provision"
        /\ Goes(Web, "answer")
        /\ UNCHANGED <<payment, invoice, unacked, price, repriced>>
    BY <1>17 DEF Provision, hooks, site
  <2> QED BY <1>13, <2>1 DEF SettledInv, HookSteps
<1>18. CASE Answer
  <2>1. /\ op[Web].step = "answer"
        /\ Becomes(Web, Idle)
        /\ unacked \ {op[Web].payment} \subseteq unacked'
        /\ UNCHANGED <<payment, invoice, price, repriced>>
    BY <1>18 DEF Answer, site
  <2>2. op'[Web].step = "idle" /\ \A v \in Workers \ {Web} : op'[v] = op[v]
    BY <1>1, <1>6, <2>1, OpUpdate
  <2> QED BY <2>1, <2>2 DEF SettledInv
<1>19. CASE UNCHANGED vars
  BY <1>4, <1>19 DEF vars
<1> QED
  BY <1>7, <1>7a, <1>8, <1>9, <1>10, <1>11, <1>12, <1>14, <1>15, <1>16, <1>17, <1>18, <1>19
  DEF Next, Creation, WebHook

\* YooKassa hears 200 for a paid invoice only after the plan was activated,
\* exactly once, unless the price has changed since the payment was created.
THEOREM AckedIsSettledCorrect == Spec => []AckedIsSettled
<1>1. Init => SettledInv
  BY WorkersAssumption DEF Init, SettledInv, NoInvoice, Idle, Workers
<1>2. Inv /\ Inv' /\ SettledInv /\ [Next]_vars => SettledInv'
  BY SettledStep
<1>3. Inv /\ SettledInv => AckedIsSettled
  BY DEF Inv, RowsInv, RowOK, SettledInv, AckedIsSettled
<1> QED BY <1>1, <1>2, <1>3, InvCorrect, PTL DEF Spec

=============================================================================
