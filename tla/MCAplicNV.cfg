CONSTANTS
    NVMaxVector <- MCNVMaxVector
    ImsicMaxIrqs <- MCImsicMaxIrqs
    MaxGuest <- MCMaxGuest
    NumberInterrupts = 2
    NumberDomains = 2
    NumberCores = 1
    SourcecfgValues <- MCSourcecfgEdge
    TargetValues <- MCTargetDelivery
    NumValues = {0, 1, 2}
    BitValues = {{1}, {0, 1, 2}}
    MsiaddrValues <- MCMsiaddrSameHart
    GenmsiValues <- MCGenmsiNV
    DomaincfgIEValues = {TRUE}
    BootIE = TRUE

SPECIFICATION NVSpec

INVARIANT TypeOK

PROPERTY PendingReachesImsic
PROPERTY ImplementsThresholdStack
