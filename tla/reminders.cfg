SPECIFICATION RemindersFairSpec
CONSTANTS
  Users = {u1}
  Products = {"vpn", "ai", "bundle"}
  Day = 3
  PlanDays = 4
  EarlyDays = 2
  MaxGap = 2
  LoopFaults = {"refused", "raises", "database", "crash"}
INVARIANTS RemindedMayRenew
PROPERTIES OnceUnlessCut NoneMissed ChecksGoOn
