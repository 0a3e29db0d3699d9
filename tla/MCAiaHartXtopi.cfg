CONSTANTS
    MaxGuest <- MCMaxGuest
    NVMaxVector <- MCNVMaxVector
    ImsicMaxIrqs <- MCImsicMaxIrqs
    BootOps <- MCBootNV
    Ops <- MCOpsDispatch
    HwEvents <- MCNoHwEvents
    MsiWrites <- MCMsiDispatch

SPECIFICATION Spec


INVARIANT XtopiFresh



