CONSTANTS
  stereo = stereo
  mono = mono
  mic = mic
  fast = fast
  slow = slow
  None = None
  Outputs = {stereo, mono}
  Inputs = {mic}
  Machines = {fast, slow}
  Channels <- MCChannels
  Feed <- MCFeed
  Garbage <- MCGarbage
  Marks <- MCMarks
  Device = 2
  MaxOn = 4
  MaxDepth = 2
SPECIFICATION Spec
INVARIANTS
  AudioTypeOK
  LoopAlive
  CountMatches
  WaitsOnce
PROPERTIES
  OneBlockEach
  SoundGoesOn
  FallsSilent
