CONSTANTS
  src = src
  snk = snk
  rst = rst
  t1 = t1
  t2 = t2
  t3 = t3
  c1 = c1
  None = None
  Activations = {src, snk}
  Threads = {t1, t2}
  Spares = {}
  Clients = {}
  Order <- MCOrder
  Emits <- MCEmits
  Inputs <- PoolInputs
  Doomed <- NoDoomed
  Throwers = {src}
  Restarters = {}
  CanQuit = FALSE
  MaxRequests = 2
SPECIFICATION Spec
INVARIANT TakesUnderLock
