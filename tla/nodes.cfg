SPECIFICATION Spec
CONSTANTS
  Nodes = {1, 2}
  MaxUsers <- MCMaxUsers
  AgentMax <- MCAgentMax
  Customers = {u1, u2}
  Former = {old}
  Kept = {admin, family}
  Spared = {admin}
  Nobody = nobody
  MaxInFlight = 2
  Faults = {"commit", "agent"}
  TestMayFail = TRUE
SYMMETRY CustomerSymmetry
INVARIANTS LimitUnlessOverlap ShownUnlessLoose RefusalExplained
PROPERTIES KeptStay
