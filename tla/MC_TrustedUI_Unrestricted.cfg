CONSTANTS
    HonoursRequestedButtons = FALSE
    SizeBits <- MCSizeBits
SPECIFICATION Spec
INVARIANTS
    ScreenIndexInRange
