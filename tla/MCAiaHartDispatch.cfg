CONSTANTS
    MaxGuest <- MCMaxGuest
    NVMaxVector <- MCNVMaxVector
    ImsicMaxIrqs <- MCImsicMaxIrqs
    BootOps <- MCBootDispatch
    Ops <- MCOpsDispatch
    HwEvents <- MCNoHwEvents
    MsiWrites <- MCMsiDispatch

SPECIFICATION Spec
VIEW MCView

INVARIANT ImsicLinesFresh AssertionsHold

PROPERTY TrapLineClaimed


