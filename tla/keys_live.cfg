SPECIFICATION AskingSpec
CONSTANTS
  WebUsers = {}
  BotUsers = {b1}
  Nobody = nobody
  Bots = {bot1}
  Web = web
  Keys = {k1, k2, k3}
  NoKey = nokey
  Products = {"vpn", "ai"}
  MaxSubs = 2
  MaxInFlight = 4
  Faults = {"revoke"}
INVARIANTS NoForeignKey
PROPERTIES AskedKeyIsServed DueIsExpired
CHECK_DEADLOCK FALSE
