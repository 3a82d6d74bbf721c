\* A resize of a visible window.
SPECIFICATION FairSpec
CONSTANTS
    FrameCount = 2
    ImageCount = 3
    MaxDeferred = 4
    UploadFrames = {0}
    MaxFrames = 3
    MaxUploads = 1
    MaxWindowEvents = 0
    MaxResizes = 1
PROPERTIES
    ResizeRecovers
CHECK_DEADLOCK FALSE
