SPECIFICATION Spec
CONSTANTS
    FrameAdvance = 5
    I2sSamples <- MCI2sSamples
    MaxTime = 110
INVARIANTS
    AudioInputTypeOK
    CodecBeforeAudio
    NeverBlocks
    RingRefusesFirst
    ReferenceNotNewer
    LagWithinRing
PROPERTIES
    LagSteady
CHECK_DEADLOCK FALSE
