CONSTANTS
  src = src
  snk = snk
  rst = rst
  t1 = t1
  t2 = t2
  t3 = t3
  c1 = c1
  None = None
  Activations = {src, snk, rst}
  Threads = {t1, t2}
  Spares = {t3}
  Clients = {}
  Order <- MCOrder
  Emits <- MCEmits
  Inputs <- PoolInputs
  Doomed <- NoDoomed
  Throwers = {}
  Restarters = {rst}
  CanQuit = FALSE
  MaxRequests = 1
SPECIFICATION FairLockSpec
PROPERTY RestartServes
CHECK_DEADLOCK FALSE
