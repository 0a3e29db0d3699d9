CONSTANTS
    MaxGuest <- MCMaxGuest
    NVMaxVector <- MCNVMaxVector
    ImsicMaxIrqs <- MCImsicMaxIrqs
    BootOps <- MCBootNV
    Ops <- MCOpsDelivery
    HwEvents <- MCHwEvents
    MsiWrites <- MCMsiWrites

SPECIFICATION Spec
VIEW MCView

INVARIANT TypeOK ImsicLinesFresh AssertionsHold

PROPERTY LocalEdgeMirrored
