\* Two contexts used three times each, with resizes, lost surfaces and a window that
\* is minimized twice.
SPECIFICATION FairSpec
CONSTANTS
    FrameCount = 2
    ImageCount = 3
    MaxDeferred = 4
    UploadFrames = {0}
    MaxFrames = 6
    MaxUploads = 2
    MaxWindowEvents = 3
    MaxResizes = 2
INVARIANTS
  CommandPoolIdle
  NoDestroyInUse
  DrawnIsAcquired
PROPERTIES
  PresentReturns
CHECK_DEADLOCK FALSE
