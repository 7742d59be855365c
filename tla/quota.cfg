SPECIFICATION Spec
CONSTANTS
  Messages = {m1, m2, m3}
  Limit = 2
  ApiKeys <- TwoKeys
  Proxies <- OneProxy
  MaxDay = 2
  MaxInFlight = 3
  Faults = {"openai", "garbled", "commit", "restart"}
INVARIANTS NeverOvercounted LimitHoldsAlone FailedOnEveryRoute
SYMMETRY MessageSymmetry
CHECK_DEADLOCK FALSE
