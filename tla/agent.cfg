SPECIFICATION FairSpec
CONSTANTS
  a1 = a1
  a2 = a2
  b = b
  admin = admin
  alice = alice
  bob = bob
  Tags = {in1, in2}
  Ids <- MCIds
  EmailOf <- MCEmailOf
  Reserved = {admin}
  MaxUsers = 1
  Nobody = nobody
  Down = down
  NoRequest = norequest
  Faults = {"disk", "test", "reload", "uri", "crash"}
INVARIANTS OneClientPerEmail SuccessIsRunning
PROPERTIES ImplementsContract EveryRequestEnds
