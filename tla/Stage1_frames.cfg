SPECIFICATION FairSpec
CONSTANTS
    MaxDelay = 6
    Delays <- MCDelays
    YChannels = 2
    XChannels = 2
    Period = 12
    HoldLimit = 2
    FrameAdvance = 2
    LinkLength = 2
INVARIANTS
    Stage1TypeOK
    DelayedExactly
    OutputDefined
    OneCanceller
    HoldRespected
PROPERTIES
    DelayCorrectedOnce
    IcTakesOver
