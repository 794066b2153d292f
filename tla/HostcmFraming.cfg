SPECIFICATION FramingSpec
CONSTANTS
  Payloads <- MCPayloads
  MaxFrames = 2
  MaxHarm = 1
  BufSize = 64
INVARIANTS
  OneFlipSeen
  CleanFramesArrive
  RunTogetherSeen
CHECK_DEADLOCK FALSE
