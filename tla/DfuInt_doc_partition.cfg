SPECIFICATION Spec
CONSTANTS
    NUM_FRAGMENTS = 2
    FactoryAddr = 0
    FactorySize = 2
    UpgradeAddr = 1
    UpgradeSize = 1
    DataAddr = 3
    FlashSize = 4
    d1 = d1
    d2 = d2
    Payload = {d1}
    Zero = Zero
    Erased = Erased
    Original = Original
    Paced = TRUE
    EarlyPolls = FALSE
    Alts = {1, 2}
    TransferBlocks = {}
    MaxPending = 1
INVARIANTS
    WritesGoToSelectedPartition
