SPECIFICATION Spec
CONSTANTS
  WebUsers = {}
  BotUsers = {b1}
  Nobody = nobody
  Bots = {bot1}
  Web = web
  Keys = {k1, k2}
  NoKey = nokey
  Products = {"vpn", "ai", "bundle"}
  MaxSubs = 3
  MaxInFlight = 1
  Faults = {}
INVARIANTS SuspendedUserGetsNewKey
SYMMETRY KeySymmetry
CHECK_DEADLOCK FALSE
