CONSTANTS
  g = g
  h = h
  mid = mid
  snk = snk
  oG = oG
  oH = oH
  oMid = oMid
  iMid = iMid
  iSnk = iSnk
  int = int
  list = list
  None = None
  Types = {int, list}
  OutletType <- MCOutletType
  InletType <- MCSameType
  Casts = {}
  Outlets = {oG, oH, oMid}
  Inlets = {iMid, iSnk}
  Changeable = {}
  AnyOutlets = {}
  FreeEndsOnly = FALSE
  Patches = {}
  Own <- MCNoPatch
  Inside <- MCNoPatch
  Freed = Freed
  Transforms = {g, h, mid, snk}
  Owner <- MCOwner
  TakenGestures = TRUE
  ReapsEarly = FALSE
SPECIFICATION EditSpec
INVARIANT OneConnection
