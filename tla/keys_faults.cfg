SPECIFICATION HistorySpec
CONSTANTS
  WebUsers = {w1}
  BotUsers = {b1}
  Nobody = nobody
  Bots = {bot1}
  Web = web
  Keys = {k1, k2, k3}
  NoKey = nokey
  Products = {"vpn", "ai", "bundle"}
  MaxSubs = 2
  MaxInFlight = 2
  Faults = {"agent", "commit", "crash"}
INVARIANTS OneActivePerLine RetiredKeysStayDead NoOrphanClient
PROPERTIES SameKeyUnlessAsked ImplementsKeyBook DeliveredKeyWorks
SYMMETRY KeySymmetry
CHECK_DEADLOCK FALSE
