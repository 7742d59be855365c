SPECIFICATION Spec
CONSTANTS
  Devices = {d1, d2}
  Cabinet = {d1}
  NoDevice = nodevice
  Limit = 2
  MaxUnits = 3
  MaxSubs = 3
  Faults = {"stats", "shape", "torn", "agent", "poll"}
INVARIANTS NeverOvercharged NothingMissed UsedUpIsSuspended
PROPERTIES SuspendedForCause
