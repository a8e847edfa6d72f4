SPECIFICATION Spec
CONSTANTS
  Frames <- MCFrames
  Junk <- MCJunk
  Changes <- MCChanges
  MaxSent = 2
  ReadMax = 1024
INVARIANTS
  OnlySentFrames
  BytesAreKept
  FramesArrive
CHECK_DEADLOCK FALSE
