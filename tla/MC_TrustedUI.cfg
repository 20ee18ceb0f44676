CONSTANTS
    HonoursRequestedButtons = TRUE
    SizeBits <- MCSizeBits
SPECIFICATION Spec
INVARIANTS
    TypeOK
    ScreenIndexInRange
    LabelFreedOnReturn
    AcceptedOnlyWhenValidated
    OutputOnlyOnValidate
    IInv
