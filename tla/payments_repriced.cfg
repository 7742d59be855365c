SPECIFICATION FairSpec
CONSTANTS
  Users = {u1}
  Nobody = nobody
  Payments = {p1}
  NoPayment = nopayment
  Bots = {bot1}
  Web = web
  Prices = {1, 2}
  Faults = {}
PROPERTIES PaidIsActivatedAtAnyPrice
CHECK_DEADLOCK FALSE
