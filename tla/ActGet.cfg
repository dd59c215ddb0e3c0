CONSTANTS
  first = first
  second = second
  x = x
  y = y
  z = z
  t1 = t1
  t2 = t2
  None = None
  Order <- MCOrder
  Activations = {second}
  States = {x, y}
  Getters = {second}
  Setters = {t1}
  MaxSlots = 2
SPECIFICATION Spec
INVARIANT GetHears
