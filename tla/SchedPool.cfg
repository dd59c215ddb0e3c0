CONSTANTS
  src = src
  snk = snk
  rst = rst
  t1 = t1
  t2 = t2
  t3 = t3
  c1 = c1
  None = None
  Activations = {src, snk, rst}
  Threads = {t1, t2}
  Spares = {t3}
  Clients = {c1}
  Order <- MCOrder
  Emits <- MCEmits
  Inputs <- PoolInputs
  Doomed <- NoDoomed
  Throwers = {}
  Restarters = {rst}
  CanQuit = TRUE
  MaxRequests = 3
SPECIFICATION FairSpec
INVARIANTS
  TypeOK
  LockDiscipline
  QueueFlagAgree
  CountAgrees
PROPERTIES
  ImplementsWorkSet
  QueuedRuns
  QuitTerminates
CHECK_DEADLOCK FALSE
