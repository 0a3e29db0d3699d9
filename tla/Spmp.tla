-------------------------------- MODULE Spmp --------------------------------
(***************************************************************************)
(* The S-mode physical memory protection unit (GenericSPMP,                *)
(* src/vp/src/core/common/spmp.h) as CombinedMemoryInterface uses it when  *)
(* use_spmp is set (mem.h): the spmpcfg, spmpaddr and spmpswitch CSRs      *)
(* written by set_csr_value, mstatus.SUM, the per-mode and per-type cache  *)
(* of the last granted region, and do_phy_address_check with               *)
(* find_matching_entry.  Addresses are scaled to AddrBits bits; a region   *)
(* is a set of 4-byte words as in the code.                                *)
(***************************************************************************)
EXTENDS Integers, FiniteSets

CONSTANTS
    SPMP_ENTRIES,  \* implemented entries; the code's other entries stay OFF
    AddrBits,      \* physical address width of the model
    CfgValues,     \* the entry configurations software writes
    AddrValues,    \* the spmpaddr values software writes
    FetchAddrs,    \* pc values of fetches
    DataAddrs,     \* addresses of loads and stores
    DataSizes,     \* access sizes of loads and stores
    MprvModes      \* the mstatus.MPP values M-mode software loads and stores under MPRV

VARIABLES
    spmpcfg,     \* entry -> [r, w, x, a, s]: the entry's byte of spmpcfg[i >> 2]
    spmpaddr,    \* entry -> spmpaddr[i].reg (address bits 2 and up)
    spmpswitch,  \* the entries whose spmpswitch bit is set
    sum,         \* mstatus.SUM
    cache,       \* spmp_cache[mode][type]: [valid, start, end]
    result       \* the outcome of the last access

vars == <<spmpcfg, spmpaddr, spmpswitch, sum, cache, result>>

Entries == 0 .. SPMP_ENTRIES - 1
AddrSpace == 2 ^ AddrBits

ADDRMATCH_OFF == 0
ADDRMATCH_TOR == 1
ADDRMATCH_NA4 == 2
ADDRMATCH_NAPOT == 3

\* spmpcfg: every field 0 at reset.
CfgReset == [r |-> FALSE, w |-> FALSE, x |-> FALSE, a |-> ADDRMATCH_OFF, s |-> FALSE]
CfgType == [r : BOOLEAN, w : BOOLEAN, x : BOOLEAN, a : 0 .. 3, s : BOOLEAN]

Types == {"FETCH", "LOAD", "STORE"}
CachedModes == {"S", "U"}
Outcomes == {"granted", "paged", "fault"}

\* spmp_cache_entry_str(): an invalid slot.
CacheMiss == [valid |-> FALSE, start |-> 0, end |-> 0]

-----------------------------------------------------------------------------
(* find_matching_entry                                                     *)

\* Mutant of CheckMatching: the last word may equal the region's end.
CheckMatchingInclusiveEnd(addr, end, s, e) ==
    IF addr >= s /\ end <= e THEN "yes"
    ELSE IF (addr >= s /\ addr < e) \/ (end >= s /\ end < e) THEN "partial"
    ELSE "no"

\* check_matching: the first and last word of the access against [s, e).
CheckMatching(addr, end, s, e) ==
    IF addr >= s /\ end < e THEN "yes"
    ELSE IF (addr >= s /\ addr < e) \/ (end >= s /\ end < e) THEN "partial"
    ELSE "no"

\* The loop "Finding the least significant zero bit in the address".
LeastZeroBit(val) ==
    CHOOSE j \in 0 .. AddrBits : (val \div 2 ^ j) % 2 = 0 /\ \A k \in 0 .. j - 1 : (val \div 2 ^ k) % 2 = 1

\* The [start_addr, end_addr) the loop computes for entry ii.
EntryRange(ii) ==
    LET val == spmpaddr[ii]
        a == spmpcfg[ii].a
        mask == 2 ^ (LeastZeroBit(val) + 1)
    IN  CASE a = ADDRMATCH_TOR ->
                [start |-> IF ii # 0 THEN spmpaddr[ii - 1] * 4 ELSE 0, end |-> val * 4]
          [] a = ADDRMATCH_NAPOT ->
                [start |-> (val - (val % mask)) * 4, end |-> mask * 4 + (val - (val % mask)) * 4]
          [] a = ADDRMATCH_NA4 ->
                [start |-> val * 4, end |-> val * 4 + 4]

\* The loop from entry ii on: idx = -1 for a partial match, SPMP_ENTRIES
\* when no entry matches, else the matching entry and its range.
RECURSIVE FindFrom(_, _, _)
FindFrom(ii, addr, end) ==
    IF ii = SPMP_ENTRIES THEN [idx |-> SPMP_ENTRIES, start |-> 0, end |-> 0]
    ELSE IF spmpcfg[ii].a = ADDRMATCH_OFF \/ ii \notin spmpswitch THEN FindFrom(ii + 1, addr, end)
    ELSE LET rg == EntryRange(ii)
             rv == CheckMatching(addr, end, rg.start, rg.end)
         IN  IF spmpcfg[ii].a = ADDRMATCH_TOR /\ rg.start >= rg.end THEN FindFrom(ii + 1, addr, end)
             ELSE IF rv = "yes" THEN [idx |-> ii, start |-> rg.start, end |-> rg.end]
             ELSE IF rv = "partial" THEN [idx |-> -1, start |-> 0, end |-> 0]
             ELSE FindFrom(ii + 1, addr, end)

\* find_matching_entry: first and last byte rounded down to their words.
FindMatchingEntry(acc) ==
    LET last == acc.addr + acc.sz - 1
    IN  FindFrom(0, acc.addr - (acc.addr % 4), last - (last % 4))

-----------------------------------------------------------------------------
(* Permissions and the check                                               *)

\* check_rwx_permission
CheckRwxPermission(c, type) ==
    CASE type = "FETCH" -> c.x [] type = "LOAD" -> c.r [] type = "STORE" -> c.w

\* is_access_allowed: the S/U rule table of the entry's S, R, W, X bits,
\* applied to the hart's privilege core.prv (not the access mode).
IsAccessAllowed(c, type, prv) ==
    IF ~c.s
    THEN CASE ~c.r /\ c.w /\ c.x  -> type # "FETCH"
           [] ~c.r /\ c.w /\ ~c.x -> IF prv = "S" THEN type # "FETCH" ELSE type = "LOAD"
           [] prv = "S"           -> sum /\ type # "FETCH" /\ CheckRwxPermission(c, type)
           [] OTHER               -> CheckRwxPermission(c, type)
    ELSE CASE c.r /\ c.w /\ c.x   -> type = "LOAD"
           [] ~c.r /\ c.w /\ c.x  -> IF prv = "U" THEN type = "FETCH" ELSE type # "STORE"
           [] ~c.r /\ c.w /\ ~c.x -> type = "FETCH"
           [] ~c.r /\ ~c.w /\ ~c.x -> FALSE
           [] prv = "U"           -> FALSE
           [] OTHER               -> CheckRwxPermission(c, type)

\* The check after a cache miss: raise_exception (a page fault) for a
\* partial match, for U with no match and for a denied access.
TableCheck(acc) ==
    LET m == FindMatchingEntry(acc)
    IN  IF m.idx < 0 THEN "fault"
        ELSE IF m.idx >= SPMP_ENTRIES THEN IF acc.mode = "S" THEN "granted" ELSE "fault"
        ELSE IF IsAccessAllowed(spmpcfg[m.idx], acc.type, acc.prv) THEN "granted"
        ELSE "fault"

\* "Check last cached access the same as new".
CacheHit(acc) ==
    LET c == cache[acc.mode][acc.type]
        last == acc.addr + acc.sz - 1
    IN  /\ c.valid
        /\ acc.addr - (acc.addr % 4) >= c.start
        /\ last - (last % 4) < c.end

\* do_phy_address_check: paged when satp.mode is set, V-modes and M pass,
\* then the cache, then the entries.
DoPhyAddressCheck(acc) ==
    CASE ~acc.bare                       -> "paged"
      [] acc.mode \in {"VS", "VU", "M"}  -> "granted"
      [] CacheHit(acc)                   -> "granted"
      [] OTHER                           -> TableCheck(acc)

\* "Caching the last successful access": the slot after the check.
CacheAfter(acc) ==
    LET m == FindMatchingEntry(acc)
    IN  IF /\ acc.bare /\ acc.mode \in CachedModes /\ ~CacheHit(acc)
           /\ m.idx \in Entries
           /\ IsAccessAllowed(spmpcfg[m.idx], acc.type, acc.prv)
        THEN [cache EXCEPT ![acc.mode][acc.type] = [valid |-> TRUE, start |-> m.start, end |-> m.end]]
        ELSE cache

\* get_mem_mode: a load or store under mstatus.MPRV takes the mode of
\* mstatus.MPP; a fetch, and any access without MPRV, the hart's prv.
GetMemMode(prv, mprv, mpp, type) == IF type # "FETCH" /\ mprv THEN mpp ELSE prv

\* The hart's privilege with MPRV and MPP: MPRV set only in M mode, since
\* every MRET to a lower mode and every SRET clears it.  VS and VU take
\* the early return of M in do_phy_address_check, so M stands for them.
PrvStates ==
    {<<p, FALSE, "U">> : p \in {"M", "S", "U"}} \cup {<<"M", TRUE, mpp>> : mpp \in MprvModes}

\* The accesses of the CombinedMemoryInterface paths (mem.h): fetches of
\* 4 bytes at an aligned pc, naturally aligned loads and stores, each with
\* the hart's prv and the mode get_mem_mode passes to the check.
Accesses(type, addrs, sizes) ==
    {[prv |-> ps[1], mode |-> GetMemMode(ps[1], ps[2], ps[3], type), type |-> type,
      addr |-> a, sz |-> z, bare |-> b] : ps \in PrvStates, a \in addrs, z \in sizes, b \in BOOLEAN}
\* csr_misa::init sets C among the extensions, and set_csr_value ignores
\* writes to misa: the C extension is always on.
MisaHasC == TRUE

\* pc_alignment_mask: pcs are 2-byte aligned with C, else 4-byte aligned.
PcAlign == IF MisaHasC THEN 2 ELSE 4
FetchAccesses == {a \in Accesses("FETCH", FetchAddrs, {4}) : a.addr % PcAlign = 0}
DataAccesses ==
    UNION {{a \in Accesses(t, DataAddrs, DataSizes) : a.addr % a.sz = 0} : t \in {"LOAD", "STORE"}}
AllAccesses == FetchAccesses \cup DataAccesses

-----------------------------------------------------------------------------
(* The hart's steps                                                        *)

Init ==
    /\ spmpcfg = [i \in Entries |-> CfgReset]
    /\ spmpaddr = [i \in Entries |-> 0]
    /\ spmpswitch = {}
    /\ sum = FALSE
    /\ cache = [m \in CachedModes |-> [t \in Types |-> CacheMiss]]
    /\ result = "none"

\* clear_spmp_cache
ClearSpmpCache == [m \in CachedModes |-> [t \in Types |-> CacheMiss]]

\* set_csr_value, SPMPCFG*: clear the cache, then write the entry's byte.
SpmpcfgWrite(i, c) ==
    /\ cache' = ClearSpmpCache
    /\ spmpcfg' = [spmpcfg EXCEPT ![i] = c]
    /\ UNCHANGED <<spmpaddr, spmpswitch, sum, result>>

\* set_csr_value, SPMPADDR*: clear the cache, then write the address.
SpmpaddrWrite(i, v) ==
    /\ cache' = ClearSpmpCache
    /\ spmpaddr' = [spmpaddr EXCEPT ![i] = v]
    /\ UNCHANGED <<spmpcfg, spmpswitch, sum, result>>

\* set_csr_value, SPMPSWITCH0/1: clear the cache, then write the bits.
SpmpswitchWrite(s) ==
    /\ cache' = ClearSpmpCache
    /\ spmpswitch' = s
    /\ UNCHANGED <<spmpcfg, spmpaddr, sum, result>>

\* set_csr_value, MSTATUS/SSTATUS: write(csrs.mstatus, mask); SUM is
\* writable through both and the cache is left as it is.
MstatusWrite(b) ==
    /\ sum' = b
    /\ UNCHANGED <<spmpcfg, spmpaddr, spmpswitch, cache, result>>

\* load_instr / _load_data / _store_data with use_spmp: the check and the
\* cache update of one access.
MemAccess(acc) ==
    /\ result' = DoPhyAddressCheck(acc)
    /\ cache' = CacheAfter(acc)
    /\ UNCHANGED <<spmpcfg, spmpaddr, spmpswitch, sum>>

Next ==
    \/ \E i \in Entries, c \in CfgValues : SpmpcfgWrite(i, c)
    \/ \E i \in Entries, v \in AddrValues : SpmpaddrWrite(i, v)
    \/ \E s \in SUBSET Entries : SpmpswitchWrite(s)
    \/ \E b \in BOOLEAN : MstatusWrite(b)
    \/ \E acc \in AllAccesses : MemAccess(acc)

Spec == Init /\ [][Next]_vars

-----------------------------------------------------------------------------
(* Properties                                                              *)

TypeOK ==
    /\ spmpcfg \in [Entries -> CfgType]
    /\ spmpaddr \in [Entries -> Nat]
    /\ spmpswitch \subseteq Entries
    /\ sum \in BOOLEAN
    /\ cache \in [CachedModes -> [Types -> [valid : BOOLEAN, start : Nat, end : Nat]]]
    /\ result \in Outcomes \cup {"none"}

\* The bytes an access touches.
Bytes(acc) == acc.addr .. (acc.addr + acc.sz - 1)

\* The largest power of two that divides n (n > 0).
Pow2Dividing(n) == CHOOSE p \in {2 ^ k : k \in 0 .. AddrBits + 1} : n % p = 0 /\ n % (2 * p) # 0

\* The bytes of entry i by the SPMP encoding: TOR from the previous
\* entry's address up to its own, NA4 one word, NAPOT an aligned block of
\* 8 * 2^t bytes when spmpaddr ends in t ones.
InRegion(i, b) ==
    LET val == spmpaddr[i]
    IN  CASE spmpcfg[i].a = ADDRMATCH_TOR ->
                (IF i = 0 THEN 0 ELSE spmpaddr[i - 1] * 4) <= b /\ b < val * 4
          [] spmpcfg[i].a = ADDRMATCH_NA4 -> b \div 4 = val
          [] spmpcfg[i].a = ADDRMATCH_NAPOT ->
                b \div (8 * Pow2Dividing(val + 1)) = (val * 4) \div (8 * Pow2Dividing(val + 1))
          [] OTHER -> FALSE

\* The entries that are switched on and configured.
Active == {i \in Entries : i \in spmpswitch /\ spmpcfg[i].a # ADDRMATCH_OFF}

\* The decision the entries prescribe for an S or U access: the
\* lowest-numbered active entry touching a byte decides, and it must hold
\* every byte; with none, S passes and U faults.
RefDecision(acc) ==
    LET touching == {i \in Active : \E b \in Bytes(acc) : InRegion(i, b)}
        j == CHOOSE i \in touching : \A k \in touching : i <= k
    IN  IF touching = {} THEN IF acc.mode = "S" THEN "granted" ELSE "fault"
        ELSE IF /\ \A b \in Bytes(acc) : InRegion(j, b)
                /\ IsAccessAllowed(spmpcfg[j], acc.type, acc.mode)
             THEN "granted" ELSE "fault"

\* On a cache miss, find_matching_entry and is_access_allowed decide every
\* S and U access of a bare-satp hart as the lowest-numbered matching
\* entry prescribes: the word rounding of check_matching, the TOR, NA4 and
\* NAPOT decoding (least significant zero bit) and the partial-match fault
\* agree with the byte sets of the entries.  Loads and stores that M-mode
\* software issues under mstatus.MPRV are left out: is_access_allowed judges
\* them by core.prv (M), not by the MPP mode get_mem_mode hands in, and so
\* grants an MPRV access with MPP=S to a U-only region regardless of SUM.
TableDecisionIsFirstMatch ==
    \A acc \in AllAccesses :
        acc.bare /\ acc.mode \in CachedModes /\ acc.prv = acc.mode => TableCheck(acc) = RefDecision(acc)

=============================================================================
