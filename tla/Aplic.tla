-------------------------------- MODULE Aplic ---------------------------------
(***************************************************************************)
(* The APLIC of the platform (struct APLIC, src/vp/src/platform/common/     *)
(* aplic.h) in MSI delivery mode, composed with the machine-level IMSIC    *)
(* file of hart 0 that its MSIs reach through ImsicMem.                    *)
(*                                                                         *)
(* Every register write of the machine domain is one atomic step: the      *)
(* TLM write and its post_write_* callback.  The callbacks that set a      *)
(* pending or enable bit notify the event e_run one clock later; the       *)
(* SC_THREAD run() waits on e_run and, when woken, sends the MSI of the    *)
(* lowest pending and enabled source.  An sc_event holds at most one       *)
(* pending notification, so notifications made before run() wakes merge:   *)
(* eRun is that pending notification.  ip_reg and ie_reg are one word      *)
(* (NumberInterrupts <= 32) abstracted to sets of source numbers.          *)
(***************************************************************************)
EXTENDS Imsic, Bitwise

CONSTANTS
    NumberInterrupts,  \* template parameter: sources 1 .. NumberInterrupts - 1
    NumberDomains,     \* template parameter: interrupt domains
    NumberCores,       \* template parameter: harts an MSI may target
    MaxGuest           \* iss_config::MAX_GUEST: ImsicMem has 2 + MAX_GUEST pages

ASSUME NumberInterrupts \in 2 .. 32 /\ NumberDomains \in 1 .. 2 /\ NumberCores \in Nat \ {0}

Sources == 1 .. (NumberInterrupts - 1)

\* enum source_mode
INACTIVE == 0
DETACHED == 1
EDGE1 == 4
EDGE0 == 5
LEVEL1 == 6
LEVEL0 == 7

\* A sourcecfg register: the D bit and bits 0..2, which are SM when D = 0
\* and the low bits of the child index when D = 1 (the code reads SM from
\* them in both cases).
SourcecfgZero == [d |-> FALSE, low |-> INACTIVE]

\* A target register: the hart index and EIID fields (the guest index and
\* MSIDELIV bits do not reach the MSI).
TargetZero == [hart |-> 0, eiid |-> 0]

\* APLIC::source_is_inactive: out of range, delegated, or SM below EDGE1
\* (so DETACHED counts as inactive).
SourceIsInactive(cfg, id) == id \notin Sources \/ cfg[id].d \/ cfg[id].low < EDGE1

\* Mutant of ActiveBits: identity 0 and the identities from
\* NumberInterrupts up are not dropped.
ActiveBitsUnbounded(cfg, bits) ==
    {i \in bits : i \notin Sources \/ ~SourceIsInactive(cfg, i)}

\* The writable identities of a setip/setie word write: identity 0, the
\* identities from NumberInterrupts up and the inactive sources are dropped.
ActiveBits(cfg, bits) == {i \in bits : ~SourceIsInactive(cfg, i)}

-----------------------------------------------------------------------------
(* MSI addressing (get_m_target_address) and the ImsicMem page decode.      *)

IMSIC_HART0_BASE == 822083584          \* 0x31000000
APLIC_PAGE_SIZE == 4096

\* Reset values of the machine domain's mmsiaddrcfg and mmsiaddrcfgh.
MmsiaddrcfgReset == IMSIC_HART0_BASE \div APLIC_PAGE_SIZE
MmsiaddrcfghReset == 0

\* x << s kept to the 20 bits that survive the final << 12 and the cast to
\* uint32_t of the address.
Shl20(x, s) == IF s >= 20 THEN 0 ELSE (x * 2 ^ s) % 2 ^ 20

\* APLIC::get_m_target_address: the hart group g and hart h from the
\* hart index, placed at HHXS and LHXS above the base PPN; hippn lands at
\* bit 44 and is cut by the uint32_t return.
GetMTargetAddress(mmsiaddr, mmsiaddrh, hart_ind) ==
    LET lhxw == shiftR(mmsiaddrh, 12) & 15
        hhxw == shiftR(mmsiaddrh, 16) & 7
        lhxs == shiftR(mmsiaddrh, 20) & 7
        hhxs == shiftR(mmsiaddrh, 24) & 31
        g == shiftR(hart_ind, lhxw) & (2 ^ hhxw - 1)
        h == hart_ind & (2 ^ lhxw - 1)
    IN  ((mmsiaddr | Shl20(g, hhxs + 12) | Shl20(h, lhxs)) % 2 ^ 20) * APLIC_PAGE_SIZE

\* ImsicMem decode of a bus address: the page index of hart 0's IMSIC
\* region, or -1 outside it.
ImsicPage(addr) ==
    IF addr >= IMSIC_HART0_BASE /\ addr < IMSIC_HART0_BASE + APLIC_PAGE_SIZE * (2 + MaxGuest)
    THEN (addr - IMSIC_HART0_BASE) \div APLIC_PAGE_SIZE
    ELSE -1

\* An MSI written to page 0 (ImsicMem::post_write_imsic_mmio with
\* route_imsic_write(MachineMode)): value & max_imsic_iid sets that eip
\* bit of the M file.  Writes to other pages reach other files.
MsiToMFile(f, addr, data) ==
    IF ImsicPage(addr) = 0 THEN ImsicUpdateEipBit(f, data % ImsicMaxIrqs, TRUE) ELSE f

-----------------------------------------------------------------------------
(* State: the machine domain's registers, the pending e_run notification   *)
(* and the M interrupt file of hart 0 that the MSIs reach.                  *)

CONSTANTS
    SourcecfgValues,   \* sourcecfg words written: records [d, low]
    TargetValues,      \* target words written: records [hart, eiid]
    NumValues,         \* values written to setipnum, clripnum, setienum, clrienum
    BitValues,         \* word 0 of setip, in_clrip, setie, clrie: sets of bit numbers
    MsiaddrValues,     \* <<mmsiaddrcfg, mmsiaddrcfgh>> pairs written
    GenmsiValues,      \* genmsi words written: records [hart, eiid]
    DomaincfgIEValues, \* IE bits written to domaincfg
    BootIE             \* domaincfg.IE when software hands the APLIC over

VARIABLES
    sourcecfg,   \* sourcecfg[APLIC_M_DOMAIN]
    target,      \* target[APLIC_M_DOMAIN]
    ip,          \* ip_reg[APLIC_M_DOMAIN][0]
    ie,          \* ie_reg[APLIC_M_DOMAIN][0]
    domIE,       \* domaincfg[APLIC_M_DOMAIN].IE (DM is always 1)
    msiaddr,     \* <<mmsiaddrcfg, mmsiaddrcfgh>> of the machine domain
    eRun,        \* a notification of e_run not yet consumed by run()
    mfile        \* hart 0's machine-level IMSIC file

vars == <<sourcecfg, target, ip, ie, domIE, msiaddr, eRun, mfile>>

SourcecfgType == [d : BOOLEAN, low : 0 .. 7]
TargetType == [hart : Nat, eiid : 0 .. 2047]

\* The APLIC constructor's reset state.
AplicInit ==
    /\ sourcecfg = [s \in Sources |-> SourcecfgZero]
    /\ target = [s \in Sources |-> TargetZero]
    /\ ip = {}
    /\ ie = {}
    /\ domIE = BootIE
    /\ msiaddr = <<MmsiaddrcfgReset, MmsiaddrcfghReset>>
    /\ eRun = FALSE

\* The hart enables every identity of its M file and turns delivery on
\* before it enables the APLIC.
Init ==
    /\ AplicInit
    /\ mfile = [FileInit EXCEPT !.eie = Eiids, !.delivery = TRUE]

\* get_m_target_address of every register value software writes, computed
\* once per model (the addresses depend only on the written values).
MTargetAddressTable ==
    [a \in MsiaddrValues \cup {<<MmsiaddrcfgReset, MmsiaddrcfghReset>>},
     hart \in 0 .. (NumberCores - 1) |-> GetMTargetAddress(a[1], a[2], hart)]

MTargetAddress(hart) == MTargetAddressTable[msiaddr, hart]

-----------------------------------------------------------------------------
(* Register writes: one action per post_write_* callback.                   *)

\* post_write_domainconfig: only IE is writable; e_run is not notified.
PostWriteDomainconfig(v) ==
    /\ domIE' = v
    /\ UNCHANGED <<sourcecfg, target, ip, ie, msiaddr, eRun, mfile>>

\* post_write_sourcecfg: the guard is its two asserts (SM not reserved and
\* a delegation to an existing child).  Inactive clears target, ie and ip;
\* every other value is kept as written.
PostWriteSourcecfg(s, c) ==
    /\ c.low \notin {2, 3}
    /\ c.d => c.low < NumberDomains
    /\ IF c.low = INACTIVE
       THEN /\ sourcecfg' = [sourcecfg EXCEPT ![s] = SourcecfgZero]
            /\ target' = [target EXCEPT ![s] = TargetZero]
            /\ ie' = ie \ {s}
            /\ ip' = ip \ {s}
       ELSE /\ sourcecfg' = [sourcecfg EXCEPT ![s] = c]
            /\ UNCHANGED <<target, ie, ip>>
    /\ UNCHANGED <<domIE, msiaddr, eRun, mfile>>

\* The machine domain's mmsiaddrcfg and mmsiaddrcfgh have no callback.
PostWriteMsiaddrcfg(a) ==
    /\ msiaddr' = a
    /\ UNCHANGED <<sourcecfg, target, ip, ie, domIE, eRun, mfile>>

\* post_write_setip: the active identities of the word become pending and
\* e_run is notified when any remain.
PostWriteSetip(bits) ==
    LET kept == ActiveBits(sourcecfg, bits) IN
    /\ ip' = ip \cup kept
    /\ eRun' = (eRun \/ kept # {})
    /\ UNCHANGED <<sourcecfg, target, ie, domIE, msiaddr, mfile>>

\* Mutant of PostWriteSetipnum: the pending bit is set without notifying
\* e_run.
PostWriteSetipnumNoNotify(n) ==
    IF n \in Sources /\ ~SourceIsInactive(sourcecfg, n)
    THEN /\ ip' = ip \cup {n}
         /\ UNCHANGED <<sourcecfg, target, ie, domIE, msiaddr, eRun, mfile>>
    ELSE UNCHANGED vars

\* post_write_setipnum (and setipnum_le, which calls it).
PostWriteSetipnum(n) ==
    IF n \in Sources /\ ~SourceIsInactive(sourcecfg, n)
    THEN /\ ip' = ip \cup {n}
         /\ eRun' = TRUE
         /\ UNCHANGED <<sourcecfg, target, ie, domIE, msiaddr, mfile>>
    ELSE UNCHANGED vars

\* gateway_trigger_interrupt: a wired device raising its source through
\* the interrupt_gateway interface; its body is that of setipnum.
GatewayTriggerInterrupt(n) == PostWriteSetipnum(n)

\* post_write_in_clrip: no filter, no notification.
PostWriteInClrip(bits) ==
    /\ ip' = ip \ bits
    /\ UNCHANGED <<sourcecfg, target, ie, domIE, msiaddr, eRun, mfile>>

\* post_write_clripnum: any valid identity, active or not.
PostWriteClripnum(n) ==
    /\ ip' = IF n \in Sources THEN ip \ {n} ELSE ip
    /\ UNCHANGED <<sourcecfg, target, ie, domIE, msiaddr, eRun, mfile>>

\* post_write_setie: the active identities become enabled; e_run is
\* notified whenever the enable word is nonzero afterwards.
PostWriteSetie(bits) ==
    /\ ie' = ie \cup ActiveBits(sourcecfg, bits)
    /\ eRun' = (eRun \/ ie' # {})
    /\ UNCHANGED <<sourcecfg, target, ip, domIE, msiaddr, mfile>>

\* post_write_setienum
PostWriteSetienum(n) ==
    IF n \in Sources /\ ~SourceIsInactive(sourcecfg, n)
    THEN /\ ie' = ie \cup {n}
         /\ eRun' = TRUE
         /\ UNCHANGED <<sourcecfg, target, ip, domIE, msiaddr, mfile>>
    ELSE UNCHANGED vars

\* post_write_clrie
PostWriteClrie(bits) ==
    /\ ie' = ie \ bits
    /\ UNCHANGED <<sourcecfg, target, ip, domIE, msiaddr, eRun, mfile>>

\* post_write_clrienum: valid and active identities only.
PostWriteClrienum(n) ==
    /\ ie' = IF n \in Sources /\ ~SourceIsInactive(sourcecfg, n) THEN ie \ {n} ELSE ie
    /\ UNCHANGED <<sourcecfg, target, ip, domIE, msiaddr, eRun, mfile>>

\* post_write_target: read-only zero for an inactive source; otherwise the
\* written word is kept (MSIDELIV forced to 1).
PostWriteTarget(s, t) ==
    /\ target' = [target EXCEPT ![s] = IF SourceIsInactive(sourcecfg, s) THEN TargetZero ELSE t]
    /\ UNCHANGED <<sourcecfg, ip, ie, domIE, msiaddr, eRun, mfile>>

\* post_write_genmsi: an extempore MSI, sent whatever domaincfg.IE is; the
\* guard is the assert of get_m_target_address.
PostWriteGenmsi(g) ==
    /\ g.hart < NumberCores
    /\ mfile' = MsiToMFile(mfile, MTargetAddress(g.hart), g.eiid)
    /\ UNCHANGED <<sourcecfg, target, ip, ie, domIE, msiaddr, eRun>>

-----------------------------------------------------------------------------
(* The SC_THREAD run() and the hart that claims the MSIs.                   *)

\* APLIC::hart_get_next_pending_interrupt: 0 while domaincfg.IE = 0,
\* otherwise the lowest active source that is both pending and enabled.
HartGetNextPendingInterrupt ==
    LET ready == {s \in ip \cap ie : ~SourceIsInactive(sourcecfg, s)}
    IN  IF ~domIE \/ ready = {} THEN 0 ELSE Min(ready)

\* APLIC::msi_clr_pending: only an edge-sensitive source loses its
\* pending bit when its MSI is sent.
MsiClrPending(n) ==
    IF sourcecfg[n].low \in {EDGE0, EDGE1} THEN ip \ {n} ELSE ip

\* The assert of get_m_target_address on the MSI run() is about to send.
RunAsserts ==
    LET n == HartGetNextPendingInterrupt
    IN  IF n = 0 THEN TRUE ELSE target[n].hart < NumberCores

\* One iteration of run(): wake on the pending notification, pick one
\* source and msi_write it (the MSI to the target address, then
\* msi_clr_pending).  A failed assert stops the simulator: no step.
Run ==
    /\ eRun
    /\ RunAsserts
    /\ eRun' = FALSE
    /\ LET n == HartGetNextPendingInterrupt IN
       IF n = 0
       THEN UNCHANGED <<mfile, ip>>
       ELSE /\ mfile' = MsiToMFile(mfile, MTargetAddress(target[n].hart), target[n].eiid)
            /\ ip' = MsiClrPending(n)
    /\ UNCHANGED <<sourcecfg, target, ie, domIE, msiaddr>>

\* The hart takes its machine external interrupt and claims it with a
\* write to mtopei (claim_topei_interrupt_on_xtopei, not write-only): the
\* eip bit of the identity in mtopei is cleared.
HartClaim ==
    /\ ComputeImsicPending(mfile, FALSE)[1]
    /\ mfile' = ClaimTopei(mfile, SetTopei(mfile, FALSE), FALSE)
    /\ UNCHANGED <<sourcecfg, target, ip, ie, domIE, msiaddr, eRun>>

\* Every step of the APLIC: register writes, device triggers and run().
AplicNext ==
    \/ \E v \in DomaincfgIEValues : PostWriteDomainconfig(v)
    \/ \E s \in Sources, c \in SourcecfgValues : PostWriteSourcecfg(s, c)
    \/ \E a \in MsiaddrValues : PostWriteMsiaddrcfg(a)
    \/ \E b \in BitValues : PostWriteSetip(b)
    \/ \E n \in NumValues : PostWriteSetipnum(n)
    \/ \E n \in Sources : GatewayTriggerInterrupt(n)
    \/ \E b \in BitValues : PostWriteInClrip(b)
    \/ \E n \in NumValues : PostWriteClripnum(n)
    \/ \E b \in BitValues : PostWriteSetie(b)
    \/ \E n \in NumValues : PostWriteSetienum(n)
    \/ \E b \in BitValues : PostWriteClrie(b)
    \/ \E n \in NumValues : PostWriteClrienum(n)
    \/ \E s \in Sources, t \in TargetValues : PostWriteTarget(s, t)
    \/ \E g \in GenmsiValues : PostWriteGenmsi(g)
    \/ Run

Next == AplicNext \/ HartClaim

\* run() is a SystemC thread: once e_run is notified the kernel resumes it
\* one clock cycle later, so a continuously enabled Run is eventually taken.
\* Register writes, device triggers and the hart's claims get no fairness:
\* they happen when software or a device chooses.
Spec == Init /\ [][Next]_vars /\ WF_vars(Run)

-----------------------------------------------------------------------------
(* Properties.                                                              *)

TypeOK ==
    /\ sourcecfg \in [Sources -> SourcecfgType]
    /\ target \in [Sources -> TargetType]
    /\ ip \subseteq Sources
    /\ ie \subseteq Sources
    /\ domIE \in BOOLEAN
    /\ eRun \in BOOLEAN
    /\ mfile \in FileType

\* The comment of post_write_setie (and the AIA rule it quotes): while a
\* source is inactive in the domain its pending and enable bits and its
\* target register read as zero.  setip, setie and target reads return
\* ip_reg, ie_reg and target as stored, so the stored state must be zero.
InactiveReadsZero ==
    \A s \in Sources :
        SourceIsInactive(sourcecfg, s) => s \notin ip /\ s \notin ie /\ target[s] = TargetZero

\* A source that is active, pending and enabled while domaincfg.IE = 1
\* and whose target names a valid identity of the M file ...
Deliverable(s) ==
    /\ s \in ip \cap ie
    /\ ~SourceIsInactive(sourcecfg, s)
    /\ domIE
    /\ target[s].eiid % ImsicMaxIrqs # 0

\* ... eventually has its identity pending in hart 0's M file, unless it
\* stops being deliverable first: the comment "We have set a pending bit,
\* if source is enabled we need to send MSI" of setip/setipnum, and the
\* e_run notification of setie, promise that run() will send it.
PendingReachesImsic ==
    \A s \in Sources :
        Deliverable(s) ~> ((target[s].eiid % ImsicMaxIrqs) \in mfile.eip \/ ~Deliverable(s))
=============================================================================
