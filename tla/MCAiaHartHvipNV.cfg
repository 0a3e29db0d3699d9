CONSTANTS
    MaxGuest <- MCMaxGuest
    NVMaxVector <- MCNVMaxVector
    ImsicMaxIrqs <- MCImsicMaxIrqs
    BootOps <- MCBootNV
    Ops <- MCOpsHvipInject
    HwEvents <- MCNoHwEvents
    MsiWrites <- MCNoMsi

SPECIFICATION Spec

INVARIANT AssertionsHold
