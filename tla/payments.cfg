SPECIFICATION FairSpec
CONSTANTS
  Users = {u1, u2}
  Nobody = nobody
  Payments = {p1, p2}
  NoPayment = nopayment
  Bots = {bot1}
  Web = web
  Prices = {1, 2}
  Faults = {"provider", "commit", "crash", "answer"}
INVARIANTS RowAgreesWithInvoice AckedIsSettled
PROPERTIES ImplementsLedger PaidIsActivated
CHECK_DEADLOCK FALSE
