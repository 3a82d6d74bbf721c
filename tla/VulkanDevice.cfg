\* The milestone scene with three turns, a resize after the third, and failures anywhere.
SPECIFICATION Spec
CONSTANTS
  FrameContexts = 2
  ImageCount = 2
  MaxFrames = 3
  ResizeFrame = 2
INVARIANTS
  NoLeak
  ParentsOutlive
  DestroyedIdle
  ReadAfterCopy
CHECK_DEADLOCK FALSE
