CONSTANTS
    MaxGuest <- MCMaxGuest
    NVMaxVector <- MCNVMaxVector
    ImsicMaxIrqs <- MCImsicMaxIrqs
    BootOps <- MCBootThreshold
    Ops <- MCOpsModeSwitch
    HwEvents <- MCNoHwEvents
    MsiWrites <- MCMsiM3

SPECIFICATION Spec

INVARIANT TopeiFresh
