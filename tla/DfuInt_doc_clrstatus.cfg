SPECIFICATION Spec
CONSTANTS
    NUM_FRAGMENTS = 2
    FactoryAddr = 0
    FactorySize = 2
    UpgradeAddr = 1
    UpgradeSize = 1
    DataAddr = 2
    FlashSize = 3
    d1 = d1
    d2 = d2
    Payload = {d1}
    Zero = Zero
    Erased = Erased
    Original = Original
    Paced = FALSE
    EarlyPolls = FALSE
    Alts = {1}
    TransferBlocks = {}
    MaxPending = 2
PROPERTIES
    ClearStatusRecovers
CHECK_DEADLOCK FALSE
