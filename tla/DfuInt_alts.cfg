SPECIFICATION FairSpec
CONSTANTS
    NUM_FRAGMENTS = 2
    FactoryAddr = 0
    FactorySize = 2
    UpgradeAddr = 1
    UpgradeSize = 1
    DataAddr = 2
    FlashSize = 3
    d1 = d1
    d2 = d2
    Payload = {d1}
    Zero = Zero
    Erased = Erased
    Original = Original
    Paced = TRUE
    EarlyPolls = FALSE
    Alts = {0, 1, 2, 3}
    TransferBlocks = {0, 1}
    MaxPending = 1
INVARIANTS
    UploadIntact
    WaiterRemembered
    WritesInsidePartition
    PredictionHolds
PROPERTIES
    FactoryReadOnly
    ImplementsProtocol
    ProtocolGoesOn
    UploadReturns
