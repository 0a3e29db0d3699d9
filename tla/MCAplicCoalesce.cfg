CONSTANTS
    NVMaxVector <- MCNVMaxVector
    ImsicMaxIrqs <- MCImsicMaxIrqs
    MaxGuest <- MCMaxGuest
    NumberDomains = 2
    NumberCores = 1
    MsiaddrValues <- MCMsiaddrReset
    GenmsiValues = {}
    NumValues = {}
    NumberInterrupts = 3
    SourcecfgValues <- MCSourcecfgEdge1
    TargetValues <- MCTargetDelivery
    BitValues = {{1, 2}}
    DomaincfgIEValues = {}
    BootIE = TRUE

SPECIFICATION Spec

PROPERTY PendingReachesImsic
