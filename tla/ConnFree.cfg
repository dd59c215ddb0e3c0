CONSTANTS
  gen = gen
  p = p
  inT = inT
  outT = outT
  oAny = oAny
  oTime = oTime
  oSamples = oSamples
  iSamples = iSamples
  iTime = iTime
  iVar = iVar
  iDouble = iDouble
  samples = samples
  time = time
  double = double
  any = any
  changeable = changeable
  None = None
  Types = {samples, time, double, any, changeable}
  OutletType <- MCOutletType
  InletType <- MCInletType
  Casts <- MCCasts
  Outlets = {oSamples, oTime, oAny}
  Inlets = {iSamples, iTime, iVar, iDouble}
  Changeable = {iVar}
  AnyOutlets = {oAny}
  FreeEndsOnly = TRUE
  Patches = {p}
  Own <- MCOwn
  Inside <- MCInside
  Freed = Freed
  Transforms = {gen, p, inT, outT}
  Home <- MCHome
  TimeDomain = {samples, time}
  Entry <- MCEntry
  Exit <- MCExit
  Rates = {2}
  Sizes = {1}
  DefaultRate = 1
  DefaultSize = 2
  MaxWalks = 2
SPECIFICATION PropSpec
INVARIANTS
  TypeOK
  RecordsAgree
  WellTyped
  AtMostOneEntering
PROPERTIES
  LeftByPatches
  OthersUntouched
  AgreementKept
  WalkEnds
CHECK_DEADLOCK FALSE
