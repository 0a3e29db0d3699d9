CONSTANTS
    NVMaxVector <- MCNVMaxVector
    ImsicMaxIrqs <- MCImsicMaxIrqs
    MaxGuest <- MCMaxGuest
    NumberDomains = 2
    NumberCores = 1
    MsiaddrValues <- MCMsiaddrReset
    GenmsiValues = {}
    NumValues = {}
    NumberInterrupts = 2
    SourcecfgValues <- MCSourcecfgLevel
    TargetValues <- MCTargetDelivery
    BitValues = {{1}}
    DomaincfgIEValues = {TRUE}
    BootIE = FALSE

SPECIFICATION Spec

PROPERTY PendingReachesImsic
