CONSTANTS
    SMPU_NREGIONS = 2
    AddrBits = 10
    SmpuaddrValues <- MCSmpuaddrValues
    SmpuconfValues = {5}
    MaskValues <- MCMaskValues
    FetchAddrs <- MCFetchAddrs
    DataAddrs <- MCDataAddrs
    DataSizes <- MCDataSizes

SPECIFICATION Spec

INVARIANT AccessNeverAborts
