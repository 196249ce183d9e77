SPECIFICATION Spec
CONSTANTS
    Pipelines = {"fixed_delay"}
    MicDelays <- MCMicDelays
    FrameAdvance = 3
    FrameCount = 2
    QueueLength = 1
    SendBuffer = 3
    StageValues = {0}
    MaxFrames = 4
    MaxHeld = 2
INVARIANTS
    DelayAsConfigured
