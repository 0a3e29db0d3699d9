CONSTANTS
    AddrBits = 10
    FetchAddrs <- MCFetchAddrs
    DataAddrs <- MCDataAddrs
    DataSizes <- MCDataSizes
    SMPU_NREGIONS = 2
    SmpuaddrValues <- MCSmpuaddrValues
    SmpuconfValues <- MCSmpuconfValues
    MaskValues <- MCMaskValues
    SPMP_ENTRIES = 2
    CfgValues <- MCCfgValues
    AddrValues <- MCAddrValues
    SpmpFetchAddrs <- MCSpmpFetchAddrs
    SpmpDataAddrs <- MCSpmpDataAddrs
    SpmpDataSizes <- MCSpmpDataSizes
    MprvModes <- MCMprvModes

SPECIFICATION Spec

INVARIANT TypeOK SmpuGrantedIffOneRegionPermits SpmpTableDecisionIsFirstMatch

\* A compressed fetch across an SMPU region boundary ends the simulation
\* (raise_unaligned_exception throws std::runtime_error): no step follows.
CHECK_DEADLOCK FALSE
