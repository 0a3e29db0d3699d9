-------------------------------- MODULE MemIf --------------------------------
(***************************************************************************)
(* The protection front of CombinedMemoryInterface (src/vp/src/core/rv32/  *)
(* mem.h): load_instr, _load_data and _store_data ask the SMPU when        *)
(* iss.use_smpu is set, else the SPMP when iss.use_spmp is set, and        *)
(* translate through the MMU when the unit does not grant.  The option is  *)
(* fixed when the platform is built, so a behaviour runs with one unit;    *)
(* the other unit's registers keep their reset values.  The units are the  *)
(* modules Smpu and Spmp, instantiated over disjoint variables.            *)
(***************************************************************************)
EXTENDS Naturals

CONSTANTS
    AddrBits, FetchAddrs, DataAddrs, DataSizes,
    SMPU_NREGIONS, SmpuaddrValues, SmpuconfValues, MaskValues,
    SPMP_ENTRIES, CfgValues, AddrValues,
    SpmpFetchAddrs, SpmpDataAddrs, SpmpDataSizes,  \* the accesses put to the SPMP
    MprvModes

VARIABLES
    use_smpu,                                  \* iss.use_smpu (else use_spmp)
    smpuaddr, smpuconf, smpumask, smpuResult,  \* the SMPU's state
    spmpcfg, spmpaddr, spmpswitch, sum, cache, spmpResult  \* the SPMP's state

smpuVars == <<smpuaddr, smpuconf, smpumask, smpuResult>>
spmpVars == <<spmpcfg, spmpaddr, spmpswitch, sum, cache, spmpResult>>
vars == <<use_smpu, smpuVars, spmpVars>>

SMPU == INSTANCE Smpu WITH result <- smpuResult
SPMP == INSTANCE Spmp WITH result <- spmpResult, FetchAddrs <- SpmpFetchAddrs,
                           DataAddrs <- SpmpDataAddrs, DataSizes <- SpmpDataSizes

\* The platform options: exactly one protection unit is in use.
Init ==
    /\ use_smpu \in BOOLEAN
    /\ SMPU!Init
    /\ SPMP!Init

\* A step of the hart with the unit the option selects (mem.h: the SMPU
\* branch is taken first, the SPMP branch only without it).
Next ==
    \/ use_smpu /\ SMPU!Next /\ UNCHANGED <<use_smpu, spmpVars>>
    \/ ~use_smpu /\ SPMP!Next /\ UNCHANGED <<use_smpu, smpuVars>>

Spec == Init /\ [][Next]_vars

\* The state of both units is well formed.
TypeOK == SMPU!TypeOK /\ SPMP!TypeOK /\ use_smpu \in BOOLEAN

\* SMPU (find_matching_entry, convert_attr, is_access_allowed_for_su): on
\* a platform built with the SMPU, an access is granted exactly when one
\* enabled region covers it and permits it and every other region it
\* touches is a translated region with no permissions.
SmpuGrantedIffOneRegionPermits == use_smpu => SMPU!GrantedIffOneRegionPermits

\* SPMP (find_matching_entry, check_matching, is_access_allowed): on a
\* cache miss every S and U access is decided by the lowest-numbered
\* active entry that touches it, which must hold all of its bytes.
SpmpTableDecisionIsFirstMatch == ~use_smpu => SPMP!TableDecisionIsFirstMatch
=============================================================================
