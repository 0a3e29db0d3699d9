CONSTANTS
    MaxGuest <- MCMaxGuest
    NVMaxVector <- MCNVMaxVector
    ImsicMaxIrqs <- MCImsicMaxIrqs
    BootOps <- MCBootSeiAtM
    Ops <- MCOpsNop
    HwEvents <- MCHwSTimer
    MsiWrites <- MCNoMsi

SPECIFICATION Spec

PROPERTY EdgeMirrored
