SPECIFICATION FairSpec
CONSTANTS
  Tasks = {t1, t2}
  Faults = {"telegram", "database", "restart"}
INVARIANTS GuideAfterPayment
PROPERTIES PaidReachesGuide
