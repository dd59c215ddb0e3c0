CONSTANTS
  src = src
  snk = snk
  rst = rst
  t1 = t1
  t2 = t2
  t3 = t3
  c1 = c1
  None = None
  Activations = {src, snk}
  Threads = {t1}
  Spares = {}
  Clients = {c1}
  Order <- MCOrder
  Emits <- MCEmits
  Inputs <- SoloInputs
  Doomed <- SoloDoomed
  Throwers = {src, snk}
  Restarters = {}
  CanQuit = TRUE
  MaxRequests = 3
SPECIFICATION FairSpec
INVARIANTS
  NoUseAfterDelete
PROPERTIES
  DeletesHappen
  QueuedRuns
CHECK_DEADLOCK FALSE
