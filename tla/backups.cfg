SPECIFICATION FairSpec
CONSTANTS
  Daemon = daemon
  Manual = {manual}
  MaxTime = 3
  MaxLate = 1
  Retention = 1
  Faults = {"dump", "disk", "network", "late", "token", "crash"}
INVARIANTS KeepsNewest
PROPERTIES DailyCopy ExcessIsDeleted
