\* Three buffers and five frames, so that buffers are used again, with every call of the device free to fail.  The
\* loop may end, wait for ever or crash.
CONSTANTS
    NBuf = 3
    MaxFrames = 5
    MayFail = TRUE
SPECIFICATION FairSpec
INVARIANTS OneOwner FramesCopiedInOrder
PROPERTY StallEndsLoop
CHECK_DEADLOCK FALSE
