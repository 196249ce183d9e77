SPECIFICATION FairSpec
CONSTANTS
    Pipelines = {"fixed_delay", "adec"}
    MicDelays <- MCMicDelays
    FrameAdvance = 3
    FrameCount = 2
    QueueLength = 1
    SendBuffer = 3
    StageValues = {0, 3, 5}
    MaxFrames = 4
    MaxHeld = 2
INVARIANTS
    AudioPathTypeOK
    StageAsConfigured
    BufferHasRoom
PROPERTIES
    FramesComeOut
