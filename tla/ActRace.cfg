CONSTANTS
  first = first
  second = second
  x = x
  y = y
  z = z
  t1 = t1
  t2 = t2
  None = None
  Order <- MCOrder
  Activations = {first}
  States = {x, y}
  Getters = {}
  Setters = {t1, t2}
  MaxSlots = 2
SPECIFICATION FairSpec
PROPERTY RendezvousFires
