-------------------------------- MODULE Smpu ---------------------------------
(***************************************************************************)
(* The S-mode memory protection unit (class GenericSMPU,                   *)
(* src/vp/src/core/common/smpu.h) at level 1 for S- and U-mode accesses,   *)
(* its region registers smpuaddr[i] / smpuconf[i] (icsr_smpuaddr,          *)
(* icsr_smpuconf, src/vp/src/core/rv32/csr.h), the enable mask smpumask,   *)
(* the locked sireg writes that program the regions (ISS::set_csr_value,   *)
(* iss.cpp) and the callers in the memory interface (mem.h).               *)
(*                                                                         *)
(* Addresses are the code's 32-bit unsigned values scaled down to          *)
(* AddrBits bits: every sum is taken modulo 2^AddrBits, so the wrap of     *)
(* end_op and end_addr happens as it does at 2^32.  Regions keep the       *)
(* code's 32-byte granule and NAPOT sizes.                                 *)
(***************************************************************************)
EXTENDS Naturals, FiniteSets

CONSTANTS
    SMPU_NREGIONS,   \* number of regions (SMPU_NREGIONS)
    AddrBits,        \* width of an address (32 in the build)
    SmpuaddrValues,  \* values software writes to smpuaddr[i]
    SmpuconfValues,  \* values software writes to smpuconf[i]
    MaskValues,      \* values software writes to smpumask (sets of regions)
    FetchAddrs,      \* pc values of instruction fetches
    DataAddrs,       \* addresses of loads and stores
    DataSizes        \* sizes of loads and stores in bytes

ASSUME SMPU_NREGIONS \in Nat \ {0} /\ AddrBits \in Nat

(***************************************************************************)
(* The state: the region registers, the mask and the outcome of the last   *)
(* operation ("none" after a register write that succeeded, the trap it     *)
(* raised, "granted", "paged", or "abort" once the simulation has ended).  *)
(***************************************************************************)
VARIABLES smpuaddr, smpuconf, smpumask, result
vars == <<smpuaddr, smpuconf, smpumask, result>>

Regions == 0 .. SMPU_NREGIONS - 1
AddrSpace == 2 ^ AddrBits

\* The permission flags of smpuconf (SMPU_X_FLAG, SMPU_W_FLAG, SMPU_R_FLAG,
\* SMPU_U_FLAG), as the bits of get_attr.
X == "X"
W == "W"
R == "R"
FlagBit == [f \in {X, W, R} |-> CASE f = X -> 1 [] f = W -> 2 [] f = R -> 4]

\* The RWX flags set in the low three bits of an attribute.
Perms(rwx) == {f \in {X, W, R} : (rwx \div FlagBit[f]) % 2 = 1}

\* convert_attr returns an int: bits 3..5 are the S-mode and bits 0..2 the
\* U-mode permissions.  It is kept as the pair of permission sets; the int
\* is 0 (RET_ATTRIBUTES_ZERO) exactly when both sets are empty.
NoAttr == [s |-> {}, u |-> {}]

(***************************************************************************)
(* Region registers.                                                       *)
(***************************************************************************)
SMPU_NAPOT_MIN_ALIGN_FACTOR == 8
SMPU_NAPOT_MAX_ALIGN_FACTOR == 31

\* Mutant of IcsrSmpuaddrCheckedWrite: the size field kept unclamped.
IcsrSmpuaddrCheckedWriteNoClamp(val) ==
    LET n == val % 32
    IN  IF n = 0 THEN val ELSE (val \div 2 ^ n) * 2 ^ n + n

\* icsr_smpuaddr::checked_write: a non-zero size field (bits 0..4) makes a
\* translated NAPOT region of 2^size bytes, size clamped to 8..31, and the
\* address bits below it cleared; otherwise the reserved bits are cleared,
\* which are the same (zero) bits.
IcsrSmpuaddrCheckedWrite(val) ==
    LET size == val % 32
        n    == IF size < SMPU_NAPOT_MIN_ALIGN_FACTOR THEN SMPU_NAPOT_MIN_ALIGN_FACTOR
                ELSE IF size > SMPU_NAPOT_MAX_ALIGN_FACTOR THEN SMPU_NAPOT_MAX_ALIGN_FACTOR
                ELSE size
    IN  IF size = 0 THEN val ELSE (val \div 2 ^ n) * 2 ^ n + n

IsTranslatedRegion(a) == a % 32 # 0
GetN(a) == a % 32
GetAddr(a) == (a \div 32) * 32

\* icsr_smpuconf: get_attr is the low four bits U R W X, get_size the size
\* field (bits 5..31) in 32-byte granules with 0x1F or-ed in.
GetAttr(c) == c % 16
Rwx(c) == GetAttr(c) % 8

GetSize(c) == (c \div 32) * 32 + 31

\* icsr_smpuaddr::check_translated_is_matched.
CheckTranslatedIsMatched(a, startOp, endOp) ==
    LET n   == GetN(a)
        val == a \div 2 ^ n
    IN  CASE startOp \div 2 ^ n = val /\ endOp \div 2 ^ n = val -> "granted"
          [] startOp \div 2 ^ n = val -> "first_half"
          [] endOp \div 2 ^ n = val -> "second_half"
          [] OTHER -> "denied"

(***************************************************************************)
(* The check of one access.  An access is a record: the privilege mode    *)
(* ("S" or "U"), the type, the address, the size, and mstatus.sum,         *)
(* mstatus.mxr and whether satp.MODE is BARE.                              *)
(***************************************************************************)
\* convert_attr: the special encodings RWX = 010 and 011 are shared regions;
\* otherwise U = 0 gives S-mode the RWX bits and U = 1 gives them to U-mode,
\* and to S-mode its R and W bits when sum is set.
ConvertAttr(attr, sum) ==
    LET rwx == attr % 8
        u   == attr >= 8
    IN  CASE rwx = 2 /\ ~u -> [s |-> {R}, u |-> {R}]
          [] rwx = 2 /\ u  -> [s |-> {R, W}, u |-> {R, W}]
          [] rwx = 3 /\ ~u -> [s |-> {X, R}, u |-> {X}]
          [] rwx = 3 /\ u  -> [s |-> {R}, u |-> {R, X}]
          [] ~u            -> [s |-> Perms(rwx), u |-> {}]
          [] OTHER         -> [s |-> IF sum THEN Perms(rwx) \ {X} ELSE {},
                               u |-> Perms(rwx)]

\* raise_unaligned_exception: a load or store traps as misaligned; any other
\* type throws std::runtime_error, which ends the simulation.
RaiseUnalignedException(type) ==
    CASE type = "LOAD"  -> "load_addr_misaligned"
      [] type = "STORE" -> "store_amo_addr_misaligned"
      [] OTHER          -> "abort"

StartOp(acc) == acc.addr
EndOp(acc) == (acc.addr + acc.sz - 1) % AddrSpace

\* One iteration of the loop of find_matching_entry over an enabled region:
\* either the loop goes on with the attributes found so far (next) or the
\* function ends (stop: a return or a thrown trap).
Continue(ret) == [stop |-> FALSE, ret |-> ret]
Stop(res) == [stop |-> TRUE, res |-> res]

TranslatedStep(a, c, ret, acc) ==
    LET rv == CheckTranslatedIsMatched(a, StartOp(acc), EndOp(acc))
    IN  CASE rv = "denied" \/ Rwx(c) = 0 -> Continue(ret)
          [] ret # NoAttr -> Stop("multiple_translations")
          [] rv # "granted" -> Stop("abort")
          [] OTHER -> Continue(ConvertAttr(GetAttr(c), acc.sum))

\* Mutant of ProtectedStep: a second matching region overwrites the first.
ProtectedStepLastWins(a, c, ret, acc) ==
    LET startAddr == GetAddr(a)
        endAddr   == (startAddr + GetSize(c)) % AddrSpace
        In(x)     == x >= startAddr /\ x <= endAddr
    IN  CASE StartOp(acc) >= startAddr /\ EndOp(acc) <= endAddr ->
                 (IF Rwx(c) = 0 THEN Continue(ret)
                  ELSE Continue(ConvertAttr(GetAttr(c), acc.sum)))
          [] In(EndOp(acc)) \/ In(StartOp(acc)) ->
                 Stop(RaiseUnalignedException(acc.type))
          [] OTHER -> Continue(ret)

ProtectedStep(a, c, ret, acc) ==
    LET startAddr == GetAddr(a)
        endAddr   == (startAddr + GetSize(c)) % AddrSpace
        In(x)     == x >= startAddr /\ x <= endAddr
    IN  CASE StartOp(acc) >= startAddr /\ EndOp(acc) <= endAddr ->
                 (CASE Rwx(c) = 0 -> Continue(ret)
                    [] ret # NoAttr -> Stop("multiple_translations")
                    [] OTHER -> Continue(ConvertAttr(GetAttr(c), acc.sum)))
          [] In(EndOp(acc)) \/ In(StartOp(acc)) ->
                 Stop(RaiseUnalignedException(acc.type))
          [] OTHER -> Continue(ret)

\* find_matching_entry from region ii on, given the attributes ret_attr
\* found so far: regions outside smpumask are skipped; the result is the
\* attributes (NoAttr for RET_ATTRIBUTES_ZERO) or the trap that ended it,
\* as a Continue or Stop record.
RECURSIVE FindFrom(_, _, _)
FindFrom(ii, ret, acc) ==
    IF ii = SMPU_NREGIONS THEN Continue(ret)
    ELSE IF ii \notin smpumask THEN FindFrom(ii + 1, ret, acc)
    ELSE LET r == IF IsTranslatedRegion(smpuaddr[ii])
                  THEN TranslatedStep(smpuaddr[ii], smpuconf[ii], ret, acc)
                  ELSE ProtectedStep(smpuaddr[ii], smpuconf[ii], ret, acc)
         IN  IF r.stop THEN r ELSE FindFrom(ii + 1, r.ret, acc)

FindMatchingEntry(acc) == FindFrom(0, NoAttr, acc)

\* is_access_allowed_for_su at level 1 without hlvx: S-mode reads the upper
\* three bits; a load needs R, or R or X when mstatus.mxr is set.
IsAccessAllowedForSu(attr, acc) ==
    LET p == IF acc.mode = "S" THEN attr.s ELSE attr.u
    IN  CASE acc.type = "FETCH" -> X \in p
          [] acc.type = "LOAD"  -> IF acc.mxr THEN p \cap {R, X} # {} ELSE R \in p
          [] OTHER              -> W \in p

\* _phya_smpu_check for an S- or U-mode access: do_phy_address_check at
\* SMPU_LEVEL_1, then at SMPU_LEVEL_2, which passes S and U accesses.  A
\* non-BARE satp makes it return false and the access goes through the MMU
\* ("paged"); a trap or the runtime_error ends the access.
DoPhyAddressCheck(acc) ==
    IF ~acc.bare THEN "paged"
    ELSE IF smpumask = {} THEN (IF acc.mode = "S" THEN "granted" ELSE "page_fault")
    ELSE LET r == FindMatchingEntry(acc)
             attr == r.ret
         IN  CASE r.stop -> r.res
               [] attr = NoAttr -> "page_fault"
               [] IsAccessAllowedForSu(attr, acc) -> "granted"
               [] OTHER -> "page_fault"

Modes == {"S", "U"}

Outcomes == {"none", "illegal_instruction", "granted", "paged", "page_fault",
             "load_addr_misaligned", "store_amo_addr_misaligned",
             "multiple_translations", "abort"}

\* The accesses the ISS makes: load_instr fetches four bytes at a pc aligned
\* to pc_alignment_mask (PcAlign); loads and stores
\* pass trap_check_addr_alignment first, so they are naturally aligned.
Accesses(type, addrs, sizes) ==
    [mode : Modes, type : {type}, addr : addrs, sz : sizes,
     sum : BOOLEAN, mxr : BOOLEAN, bare : BOOLEAN]

\* csr_misa::init sets C among the extensions, and set_csr_value ignores
\* writes to misa: the C extension is always on.
MisaHasC == TRUE

\* pc_alignment_mask: pcs are 2-byte aligned with C, else 4-byte aligned.
PcAlign == IF MisaHasC THEN 2 ELSE 4

FetchAccesses ==
    {acc \in Accesses("FETCH", FetchAddrs, {4}) : acc.addr % PcAlign = 0}

DataAccesses ==
    {acc \in Accesses("LOAD", DataAddrs, DataSizes) \cup
              Accesses("STORE", DataAddrs, DataSizes) : acc.addr % acc.sz = 0}

\* A register value checked_write can leave: a protected region, or a
\* translated one whose size field is a NAPOT factor of at least 8.
SmpuaddrLegal == {a \in 0 .. AddrSpace - 1 : a % 32 = 0 \/ a % 32 >= SMPU_NAPOT_MIN_ALIGN_FACTOR}

TypeOK ==
    /\ smpuaddr \in [Regions -> SmpuaddrLegal]
    /\ smpuconf \in [Regions -> Nat]
    /\ smpumask \subseteq Regions
    /\ result \in Outcomes

\* csr_table and icsr_ms_table construction: every register is 0.
Init ==
    /\ smpuaddr = [i \in Regions |-> 0]
    /\ smpuconf = [i \in Regions |-> 0]
    /\ smpumask = {}
    /\ result = "none"
(***************************************************************************)
(* Operations.                                                             *)
(***************************************************************************)
\* set_csr_value, case SIREG..SIREG6 with siselect on smpuaddr[i] or
\* smpuconf[i]: the address is valid in the S table, the IMSIC check does not
\* apply above 0xFF, and a region enabled in smpumask is locked: the write
\* raises an illegal instruction exception.  Otherwise checked_write, then
\* compute_imsic_pending_interrupts_s, which leaves the SMPU alone.
SiregWriteSmpuaddr(i, v) ==
    /\ i \notin smpumask
    /\ smpuaddr' = [smpuaddr EXCEPT ![i] = IcsrSmpuaddrCheckedWrite(v)]
    /\ result' = "none"
    /\ UNCHANGED <<smpuconf, smpumask>>

SiregWriteSmpuconf(i, v) ==
    /\ i \notin smpumask
    /\ smpuconf' = [smpuconf EXCEPT ![i] = v]
    /\ result' = "none"
    /\ UNCHANGED <<smpuaddr, smpumask>>

SiregWriteLocked(i) ==
    /\ i \in smpumask
    /\ result' = "illegal_instruction"
    /\ UNCHANGED <<smpuaddr, smpuconf, smpumask>>

\* set_csr_value, default case: SMPUMASK is a plain register of csr_table.
SmpumaskWrite(m) ==
    /\ smpumask' = m
    /\ result' = "none"
    /\ UNCHANGED <<smpuaddr, smpuconf>>

\* load_instr, _load_data, _store_data with use_smpu: the access checked by
\* _phya_smpu_check; "granted" goes to the bus, "paged" to v2p.
MemAccess(acc) ==
    /\ result' = DoPhyAddressCheck(acc)
    /\ UNCHANGED <<smpuaddr, smpuconf, smpumask>>

\* The simulation ends at the runtime_error ("abort"): no step follows.
Next ==
    /\ result # "abort"
    /\ \/ \E i \in Regions, v \in SmpuaddrValues : SiregWriteSmpuaddr(i, v)
       \/ \E i \in Regions, v \in SmpuconfValues : SiregWriteSmpuconf(i, v)
       \/ \E i \in Regions : SiregWriteLocked(i)
       \/ \E m \in MaskValues : SmpumaskWrite(m)
       \/ \E acc \in FetchAccesses \cup DataAccesses : MemAccess(acc)

Spec == Init /\ [][Next]_vars

(***************************************************************************)
(* Properties.                                                             *)
(***************************************************************************)
\* The byte range of an access, without the 32-bit wrap of end_op.
FirstByte(acc) == acc.addr
LastByte(acc) == acc.addr + acc.sz - 1

\* The bytes region i covers: a protected region from its address to address
\* plus size, a translated region its aligned 2^n page.
RegionBytes(i) ==
    LET a == smpuaddr[i]
    IN  IF IsTranslatedRegion(a)
        THEN LET base == (a \div 2 ^ GetN(a)) * 2 ^ GetN(a)
             IN  base .. base + 2 ^ GetN(a) - 1
        ELSE GetAddr(a) .. GetAddr(a) + GetSize(smpuconf[i])

Covers(i, acc) == FirstByte(acc) \in RegionBytes(i) /\ LastByte(acc) \in RegionBytes(i)
Touches(i, acc) == FirstByte(acc) \in RegionBytes(i) \/ LastByte(acc) \in RegionBytes(i)

\* What the comments of find_matching_entry ask of the regions: an access is
\* allowed when exactly one enabled region with permissions contains all of
\* it and permits it, and no enabled region covers only part of it (a
\* translated region without permissions is ignored).  With no region
\* enabled S-mode is unrestricted and U-mode denied; a non-BARE satp leaves
\* the access to the MMU.
RefGranted(acc) ==
    LET granting == {i \in smpumask : Covers(i, acc) /\ Rwx(smpuconf[i]) # 0}
    IN  CASE ~acc.bare -> FALSE
          [] smpumask = {} -> acc.mode = "S"
          [] OTHER ->
               /\ \E i \in granting :
                     /\ granting = {i}
                     /\ IsAccessAllowedForSu(ConvertAttr(GetAttr(smpuconf[i]), acc.sum), acc)
               /\ \A j \in smpumask :
                     Touches(j, acc) /\ ~Covers(j, acc)
                       => IsTranslatedRegion(smpuaddr[j]) /\ Rwx(smpuconf[j]) = 0

\* In every configuration software can reach through sireg and smpumask
\* writes, the region loop of find_matching_entry with its early returns
\* grants an S- or U-mode fetch, load or store exactly when RefGranted does.
GrantedIffOneRegionPermits ==
    \A acc \in FetchAccesses \cup DataAccesses :
        (DoPhyAddressCheck(acc) = "granted") <=> RefGranted(acc)

\* No instruction fetch, load or store from S- or U-mode ends the simulation
\* with the runtime_error of raise_unaligned_exception or of the unaligned
\* translated-region case: it is granted or it traps.
AccessNeverAborts == result # "abort"
====
