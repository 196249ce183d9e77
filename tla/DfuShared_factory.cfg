SPECIFICATION SharedSpec
CONSTANTS
    NUM_FRAGMENTS = 1
    FactoryAddr = 0
    FactorySize = 1
    UpgradeAddr = 1
    UpgradeSize = 1
    DataAddr = 2
    FlashSize = 4
    int = int
    usb = usb
    d1 = d1
    Payload = {d1}
    Zero = Zero
    Erased = Erased
    Original = Original
    Transport = {int, usb}
    ImageSize = 2
    MaxTotal = 3
PROPERTIES
    FactoryUntouched
