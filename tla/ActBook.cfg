CONSTANTS
  first = first
  second = second
  x = x
  y = y
  z = z
  t1 = t1
  t2 = t2
  None = None
  Order <- MCOrder
  Activations = {first, second}
  States = {x, y, z}
  Getters = {second}
  Setters = {t1}
  MaxSlots = 2
SPECIFICATION FairSpec
INVARIANTS
  TypeOK
  CountsDown
  Mutual
  ByOrder
PROPERTIES
  ImplementsRendezvous
  RendezvousFires
