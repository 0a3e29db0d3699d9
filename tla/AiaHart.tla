-------------------------------- MODULE AiaHart --------------------------------
(***************************************************************************)
(* The privileged interrupt subsystem of one hart (class ISS,              *)
(* src/vp/src/core/rv32/iss.cpp): CLINT routing and pending aggregation,   *)
(* the IMSIC files of the M and S levels and of the guests, the guest      *)
(* external interrupt line, the nested-vectored (NV) delivery cascade and  *)
(* the NV trap dispatcher.  The register state is the record h; every      *)
(* entry point is a function from h to h built from the ISS methods it     *)
(* calls, so a CSR write or an MSI is one atomic step as on the single     *)
(* simulation thread of a hart.                                            *)
(***************************************************************************)
EXTENDS AiaRouting, Imsic, SequencesExt

CONSTANTS
    MaxGuest       \* iss_config::MAX_GUEST: guest files, vgein 1..MaxGuest

Levels == {"M", "S", "VS"}
Guests == 1 .. MaxGuest

ASSUME MaxGuest \in Nat \ {0}

\* The modelled major identities in ascending order (the 0..63 loop of
\* deliver_clint_changes_to_imsics visits them in this order).
MajorIids == <<SSI, VSSI, MSI, STI, VSTI, MTI, SEI, VSEI, MEI, SGEI, LCOFI>>

\* major_irq::get_external_iid
ExternalIid(l) == CASE l = "M" -> MEI [] l = "S" -> SEI [] l = "VS" -> VSEI

\* The iprio entries an IMSIC level implements (icsr_ms_table and
\* vs_iprio_banks constructors, mark_present_in_hw).
StaticPresent(l) ==
    CASE l = "M"  -> {SSI, MSI, STI, MTI, SEI} \cup MIx_NON_LEVELED_MASK
      [] l = "S"  -> {SSI, VSSI, STI, VSTI, VSEI, SGEI} \cup MIx_NON_LEVELED_MASK
      [] l = "VS" -> {SSI, STI} \cup MIx_NON_LEVELED_MASK

\* major_irq::transform_vs_to_s (irq-prio.h): VS identities to S places.
TransformVsToS(iid) == IF iid \in MIx_VS_MASK THEN iid - 1 ELSE iid

\* icsr_iprio_arr::update_dynamic_presence via iprio_icsr_access_adjust:
\* until the first CLINT write the dynamic mask is all ones, afterwards it
\* is the set of identities routed to the level.
DynamicPresent(h, l) ==
    CASE ~h.iprioDyn -> MIx_LEVELED_MASK \cup MIx_NON_LEVELED_MASK \cup {SGEI}
      [] l = "M"  -> MIx_LEVELED_MASK \cup MIx_NON_LEVELED_MASK \cup {SGEI}
      [] l = "S"  -> SDelegated(h) \cup SInjected(h)
      [] l = "VS" -> MToVsBits(VSDelegated(h) \cup VSInjected(h))

\* The identities of the modelled iprio registers iprio[0..3], four per
\* register (PRIO_PER_IPRIO_CSR); the identities above LCOFI have no entry
\* present at any level.
PRIO_PER_IPRIO_CSR == 4
IprioIids == 0 .. 15

\* icsr_iprio_arr::iprio[]: all zero at reset.
IprioReset == [i \in IprioIids |-> 0]

\* icsr_iprio_arr::is_iprio_present: static_mask & dynamic_mask.
IsIprioPresent(h, l, iid) == iid \in StaticPresent(l) \cap DynamicPresent(h, l)

\* The iprio array of level l: the M or S table, for VS the bank of vgein
\* (vs_iprio_banks keeps one for each guest and one for vgein 0).
IprioArr(h, l) == IF l = "VS" THEN h.vsiprio[h.vgein] ELSE h.iprio[l]

\* icsr_iprio_arr::set_iprio for every identity of vals: an identity whose
\* entry is not present keeps its value.
SetIprio(h, l, vals) ==
    LET new == [i \in IprioIids |->
                  IF i \in DOMAIN vals /\ IsIprioPresent(h, l, i) THEN vals[i]
                  ELSE IprioArr(h, l)[i]]
    IN  IF l = "VS" THEN [h EXCEPT !.vsiprio[h.vgein] = new]
        ELSE [h EXCEPT !.iprio[l] = new]

\* icsr_iprio::checked_write of register iprio[k]: byte j of the value is
\* the priority of identity 4k + j.
IcsrIprioCheckedWrite(h, l, k, bytes) ==
    SetIprio(h, l, [i \in (PRIO_PER_IPRIO_CSR * k) .. (PRIO_PER_IPRIO_CSR * k + 3) |->
                      bytes[i - PRIO_PER_IPRIO_CSR * k + 1]])

\* The identities of hviprio1, hviprio1h, hviprio2 and hviprio2h.
HviprioIids ==
    [hviprio1 |-> <<0, SSI, 4, STI>>, hviprio1h |-> <<8, LCOFI, 14, 15>>,
     hviprio2 |-> <<16, 17, 18, 19>>, hviprio2h |-> <<20, 21, 22, 23>>]

\* hviprio::checked_write: byte j to identity iid_j of the vgein bank.
HviprioCheckedWrite(h, reg, bytes) ==
    LET ids == HviprioIids[reg]
    IN  SetIprio(h, "VS", [i \in {ids[j] : j \in 1 .. 4} \cap IprioIids |->
                             bytes[CHOOSE j \in 1 .. 4 : ids[j] = i]])

\* icsr_iprio_arr::get_iprio: the value, 0 when the entry is not present.
IcsrGetIprio(h, l, iid) == IF IsIprioPresent(h, l, iid) THEN IprioArr(h, l)[iid] ELSE 0

\* ISS::get_iprio: VS identities are looked up at their S places.
GetIprio(h, l, iid) ==
    IcsrGetIprio(h, l, IF l = "VS" THEN TransformVsToS(iid) ELSE iid)

-----------------------------------------------------------------------------
(* IMSIC pending computation and MSI routing.                              *)

\* compute_imsic_pending_interrupts_m / _s: the file drives its level's
\* external bit of mip directly and stores topei.
ComputeImsicM(h) ==
    LET r == ComputeImsicPending(h.mfile, h.nv["M"])
    IN  [HwWriteMip(h, MEI, r[1]) EXCEPT !.topei["M"] = TopeiIidField(r[2])]

ComputeImsicS(h) ==
    LET r == ComputeImsicPending(h.sfile, h.nv["S"])
    IN  [HwWriteMip(h, SEI, r[1]) EXCEPT !.topei["S"] = TopeiIidField(r[2])]

\* The level whose pending set holds iid (the owner of deliver_pending_to_imsic).
OwnerLevel(p, iid) ==
    IF iid \in p["M"] THEN "M"
    ELSE IF iid \in p["S"] THEN "S"
    ELSE IF iid \in p["VS"] THEN "VS"
    ELSE "none"

RECURSIVE RouteImsicWrite(_, _, _, _), ComputeImsicVS(_), RecalcSgeip(_),
          ClintHwIrqRoute(_, _, _), DeliverSingle(_, _, _), Cascade(_, _),
          DeliverPendingToImsic(_, _, _, _)

\* route_imsic_write: identity 0 is dropped, otherwise the eip bit is set
\* and the file's pending state recomputed.
RouteImsicWrite(h, l, g, value) ==
    IF value = 0 THEN h
    ELSE CASE l = "M"  -> ComputeImsicM([h EXCEPT !.mfile = ImsicUpdateEipBit(@, value, TRUE)])
           [] l = "S"  -> ComputeImsicS([h EXCEPT !.sfile = ImsicUpdateEipBit(@, value, TRUE)])
           [] l = "VS" -> ComputeImsicVS([h EXCEPT !.vsfile[g] = ImsicUpdateEipBit(@, value, TRUE)])

\* Mutant of ComputeImsicVS: vstopei is not stored.
ComputeImsicVSNoTopei(h) ==
    LET r == [g \in Guests |-> ComputeImsicPending(h.vsfile[g], h.nv["VS"])]
        h2 == RecalcSgeip([h EXCEPT !.hgeip = {g \in Guests : r[g][1]}])
    IN  HwWriteMip(h2, VSEI, h.vgein # 0 /\ r[h.vgein][1])

\* compute_imsic_pending_interrupts_vs: every guest file sets its hgeip
\* bit, SGEIP is recomputed, then the connected guest (vgein) drives VSEIP
\* and vstopei; with no guest connected both are cleared.
ComputeImsicVS(h) ==
    LET r == [g \in Guests |-> ComputeImsicPending(h.vsfile[g], h.nv["VS"])]
        h2 == RecalcSgeip([h EXCEPT !.hgeip = {g \in Guests : r[g][1]}])
    IN  IF h.vgein # 0
        THEN [HwWriteMip(h2, VSEI, r[h.vgein][1]) EXCEPT !.topei["VS"] = TopeiIidField(r[h.vgein][2])]
        ELSE [HwWriteMip(h2, VSEI, FALSE) EXCEPT !.topei["VS"] = 0]

\* recalc_sgeip
RecalcSgeip(h) == ClintHwIrqRoute(h, SGEI, h.hgeip \cap h.hgeie # {})

\* Mutant of ClintHwIrqRoute: the old pendings are computed after the mip write.
ClintHwIrqRouteLateSnapshot(h, iid, set) ==
    DeliverSingle(HwWriteMip(h, iid, set), PendingsOf(HwWriteMip(h, iid, set)), iid)

\* clint_hw_irq_route: a hardware source drives one mip bit; the change is
\* then delivered to the IMSICs.
ClintHwIrqRoute(h, iid, set) == DeliverSingle(HwWriteMip(h, iid, set), PendingsOf(h), iid)

\* deliver_clint_changes_to_imsics(old_pendings_0, iid)
DeliverSingle(h, old0, iid) ==
    LET p1 == PendingsOf(h)
    IN  Cascade(DeliverPendingToImsic(h, old0, p1, iid), p1)

\* cascade_pendings_to_imsics: VSEI newly pending at S after the first
\* order delivery goes to the S file, then SEI newly pending at M to the
\* M file.
Cascade(h, p1) ==
    LET p2 == PendingsOf(h)
        h2 == DeliverPendingToImsic(h, p1, p2, VSEI)
    IN  DeliverPendingToImsic(h2, p2, PendingsOf(h2), SEI)

\* deliver_pending_to_imsic: an iid whose pending bit rose at its owner
\* level, that is not the level's own external interrupt, is written into
\* that level's IMSIC as the minor identity iprio[iid] when the level is
\* in NV mode (and, for VS, a guest file is connected).
DeliverPendingToImsic(h, prev, new, iid) ==
    LET l == OwnerLevel(new, iid)
    IN  IF \/ l = "none"
           \/ iid \in prev[l]
           \/ iid = ExternalIid(l)
           \/ ~h.nv[l]
           \/ l = "VS" /\ h.vgein = 0
        THEN h
        ELSE RouteImsicWrite(h, l, h.vgein, GetIprio(h, l, iid))
-----------------------------------------------------------------------------
(* Entry points that change interrupt state, as functions of h.            *)

\* The loop of deliver_clint_changes_to_imsics over the identities ids,
\* all compared against the snapshot pair old0, p1.
RECURSIVE DeliverEach(_, _, _, _)
DeliverEach(h, old0, p1, ids) ==
    IF ids = <<>> THEN h
    ELSE DeliverEach(DeliverPendingToImsic(h, old0, p1, Head(ids)), old0, p1, Tail(ids))

\* deliver_clint_changes_to_imsics(old_pendings_0): every identity in
\* ascending order against one snapshot pendings_1, then the cascade.
DeliverAll(h, old0) ==
    LET p1 == PendingsOf(h)
    IN  Cascade(DeliverEach(h, old0, p1, MajorIids), p1)

\* on_clint_csr_write: the register write, iprio_icsr_access_adjust, then
\* delivery of the changes.
OnClintCsrWrite(h, r, v) ==
    DeliverAll([CheckedWriteClint(h, r, v) EXCEPT !.iprioDyn = TRUE], PendingsOf(h))

\* update_interrupt_mode: the file's eithreshold follows its xtvec mode;
\* for VS only the connected guest's file.
UpdateInterruptMode(h, l) ==
    CASE l = "M" -> [h EXCEPT !.mfile.th = SetModeSnpsVectored(@, h.nv["M"])]
      [] l = "S" -> [h EXCEPT !.sfile.th = SetModeSnpsVectored(@, h.nv["S"])]
      [] l = "VS" ->
            IF h.vgein # 0
            THEN [h EXCEPT !.vsfile[h.vgein].th = SetModeSnpsVectored(@, h.nv["VS"])]
            ELSE h

\* csr_mtvec::checked_write: a reserved mode (2) becomes SnpsNestedVectored.
SnpsNestedVectored == 3
CheckedWriteMode(m) == IF m \in {0, 1, SnpsNestedVectored} THEN m ELSE SnpsNestedVectored

\* MTVEC/STVEC/VSTVEC writes: checked_write, then on_xtvec_write.
OnXtvecWrite(h, l, m) ==
    UpdateInterruptMode([h EXCEPT !.nv[l] = CheckedWriteMode(m) = SnpsNestedVectored], l)

\* HSTATUS write (vgein clamped to MAX_GUEST), then on_guest_switch.
OnHstatusWrite(h, vgein) ==
    ComputeImsicVS(UpdateInterruptMode([h EXCEPT !.vgein = IF vgein >= MaxGuest THEN MaxGuest ELSE vgein], "VS"))

\* Mutant of OnHgeieWrite: SGEIP is not recomputed.
OnHgeieWriteNoRecalc(h, v) == [h EXCEPT !.hgeie = v \cap Guests]

\* HGEIE write, then recalc_sgeip.
OnHgeieWrite(h, v) == RecalcSgeip([h EXCEPT !.hgeie = v \cap Guests])

\* HVICTL write: csr_hvictl::checked_write only.
OnHvictlWrite(h, v) == [h EXCEPT !.hvictl = v]

\* Mutant of ClaimTopeiInterrupt: the file is not recomputed after the claim.
ClaimTopeiInterruptNoCompute(h, l, mark) ==
    CASE l = "M" -> [h EXCEPT !.mfile = ClaimTopei(@, h.topei["M"], mark)]
      [] l = "S" -> [h EXCEPT !.sfile = ClaimTopei(@, h.topei["S"], mark)]
      [] l = "VS" ->
            IF h.vgein # 0
            THEN [h EXCEPT !.vsfile[h.vgein] = ClaimTopei(@, h.topei["VS"], mark)]
            ELSE h

\* claim_topei_interrupt: pop the threshold stack or clear the stored
\* topei's eip bit, then recompute the file (VS: the connected guest).
ClaimTopeiInterrupt(h, l, mark) ==
    CASE l = "M" -> ComputeImsicM([h EXCEPT !.mfile = ClaimTopei(@, h.topei["M"], mark)])
      [] l = "S" -> ComputeImsicS([h EXCEPT !.sfile = ClaimTopei(@, h.topei["S"], mark)])
      [] l = "VS" ->
            ComputeImsicVS(IF h.vgein # 0
                           THEN [h EXCEPT !.vsfile[h.vgein] = ClaimTopei(@, h.topei["VS"], mark)]
                           ELSE h)

\* claim_topei_interrupt_on_xtopei: a write-only write of 0 in NV mode
\* marks the interrupt handled, any other write claims topei.
OnXtopeiWrite(h, l, value, access_write_only) ==
    ClaimTopeiInterrupt(h, l, h.nv[l] /\ value = 0 /\ access_write_only)

\* An indirect IMSIC register write (*ireg): the register's checked_write.
IcsrWrite(f, w) ==
    CASE w.reg = "eidelivery"  -> [f EXCEPT !.delivery = w.val = 1]
      [] w.reg = "eithreshold" -> [f EXCEPT !.th = CheckedWrite(@, w.val)]
      [] w.reg = "eip"         -> [f EXCEPT !.eip = Write64(@, {w.val}, IF w.set THEN {w.val} ELSE {})]
      [] w.reg = "eie"         -> [f EXCEPT !.eie = Write64(@, {w.val}, IF w.set THEN {w.val} ELSE {})]

\* icsrs_m/s/vs.default_write32: an iprio register of the level's table
\* (for VS the vgein bank), or a register of its file.
IcsrDefaultWrite(h, l, w) ==
    CASE w.reg = "iprio" -> IcsrIprioCheckedWrite(h, l, w.idx, w.val)
      [] l = "M"  -> [h EXCEPT !.mfile = IcsrWrite(@, w)]
      [] l = "S"  -> [h EXCEPT !.sfile = IcsrWrite(@, w)]
      [] l = "VS" -> [h EXCEPT !.vsfile[h.vgein] = IcsrWrite(@, w)]

\* MIREG/SIREG/VSIREG writes: the register write, then the file's recompute.
OnXiregWrite(h, l, w) ==
    CASE l = "M"  -> ComputeImsicM(IcsrDefaultWrite(h, l, w))
      [] l = "S"  -> ComputeImsicS(IcsrDefaultWrite(h, l, w))
      [] l = "VS" -> ComputeImsicVS(IcsrDefaultWrite(h, l, w))

\* ImsicMem::post_write_imsic_mmio: a page-aligned write to page 0 (M),
\* 1 (S) or 1 + g (guest g) delivers value & max_imsic_iid.
OnImsicMmioWrite(h, page, value) ==
    LET v == value % ImsicMaxIrqs
    IN  CASE page = 0 -> RouteImsicWrite(h, "M", 0, v)
          [] page = 1 -> RouteImsicWrite(h, "S", 0, v)
          [] page > 1 -> RouteImsicWrite(h, "VS", page - 1, v)

\* trigger_timer_interrupt / trigger_software_interrupt
HwSourceIid(kind, l) ==
    CASE kind = "timer" /\ l = "M"    -> MTI
      [] kind = "timer" /\ l = "S"    -> STI
      [] kind = "timer" /\ l = "VS"   -> VSTI
      [] kind = "software" /\ l = "M" -> MSI
      [] kind = "software" /\ l = "S" -> SSI
\* The effect of one software operation on the interrupt state (the CSR
\* write cases of set_csr_value that reach this subsystem).
ApplyOp(h, op) ==
    CASE op.kind = "clint"   -> OnClintCsrWrite(h, op.reg,
                                    IF op.set THEN ReadClint(h, op.reg) \cup {op.bit}
                                    ELSE ReadClint(h, op.reg) \ {op.bit})
      [] op.kind = "xtvec"   -> OnXtvecWrite(h, op.level, op.mode)
      [] op.kind = "hstatus" -> OnHstatusWrite(h, op.vgein)
      [] op.kind = "hgeie"   -> OnHgeieWrite(h, op.val)
      [] op.kind = "hvictl"  -> OnHvictlWrite(h, op.val)
      [] op.kind = "xtopei"  -> OnXtopeiWrite(h, op.level, op.val, op.writeOnly)
      [] op.kind = "xireg"   -> OnXiregWrite(h, op.level, op.w)
      [] op.kind = "hviprio" -> HviprioCheckedWrite(h, op.reg, op.val)
      [] OTHER               -> h

\* An xtopi register reading 0: no interrupt pending at the level.
NoTopi == [iid |-> 0, iprio |-> 0]

\* The reset state: every register 0, mideleg with its read-only ones
\* (HIE_MASK), all IMSIC files reset, no guest connected.
ResetH ==
    [mip |-> {}, mie |-> {}, mideleg |-> HIE_MASK, hideleg |-> {},
     mvien |-> {}, mvip |-> {}, msen |-> {}, hvien |-> {}, hvip |-> {}, hsen |-> {},
     hvictl |-> [vti |-> FALSE, iid |-> 0, iprio |-> 0],
     hgeie |-> {}, hgeip |-> {}, vgein |-> 0, iprioDyn |-> FALSE,
     iprio |-> [l \in {"M", "S"} |-> IprioReset],
     vsiprio |-> [g \in 0 .. MaxGuest |-> IprioReset],
     nv |-> [l \in Levels |-> FALSE],
     mfile |-> FileInit, sfile |-> FileInit, vsfile |-> [g \in Guests |-> FileInit],
     topei |-> [l \in Levels |-> 0],
     topi |-> [l \in Levels |-> NoTopi], cause |-> [l \in Levels |-> 0]]
-----------------------------------------------------------------------------
(* Trap entry and return.                                                  *)

Privs == {"M", "S", "U", "VS", "VU"}

\* Mutant of ProcessPendings: the NV filter is not applied.
ProcessPendingsUnfiltered(h, p) == p

\* process_clint_pending_irq_bits_per_level: an NV level keeps only its
\* own external interrupt.
ProcessPendings(h, p) ==
    [l \in Levels |-> IF h.nv[l] THEN p[l] \cap {ExternalIid(l)} ELSE p[l]]

\* is_irq_globaly_enable_per_level
IsIrqGloballyEnabled(c, l) ==
    CASE l = "M"  -> c.prv # "M" \/ c.ie["M"]
      [] l = "S"  -> c.prv \notin {"M", "S"} \/ (c.prv = "S" /\ c.ie["S"])
      [] l = "VS" -> c.prv = "VU" \/ (c.prv = "VS" /\ c.ie["VS"])

\* compute_pending_interrupt: M before S before VS.
ComputePendingInterrupt(p, c) ==
    IF p["M"] # {} /\ IsIrqGloballyEnabled(c, "M") THEN "M"
    ELSE IF p["S"] # {} /\ IsIrqGloballyEnabled(c, "S") THEN "S"
    ELSE IF p["VS"] # {} /\ IsIrqGloballyEnabled(c, "VS") THEN "VS"
    ELSE "none"

\* The assertions of sanitize_vs_external_pend (run by recalc_xtopi on
\* the processed pendings).
SanitizeVsExternalPendOk(h, p) ==
    /\ VSEI \notin p["M"]
    /\ (h.vgein = 0 /\ VSEI \notin h.hvip) => VSEI \notin p["S"] \cup p["VS"]
    /\ \A l \in Levels : h.nv[l] => p[l] \subseteq {ExternalIid(l)}

\* The trap stack pointer registers and the envcfg bits that enable their
\* swap: menvcfg.MTSP, henvcfg.HTSP and VGTSP, senvcfg.STSP.
TspRegs == {"mtsp", "htsp", "stsp", "vstsp"}
TspBits == {"mtsp", "htsp", "vgtsp", "stsp"}

\* csr_menvcfg, csr_senvcfg, csr_henvcfg::checked_write: the TSP bits of
\* each register are inside its write mask, so a write sets them to the
\* written value's bits.
EnvcfgBits(reg) ==
    CASE reg = "menvcfg" -> {"mtsp"} [] reg = "henvcfg" -> {"htsp", "vgtsp"} [] reg = "senvcfg" -> {"stsp"}

CsrEnvcfgCheckedWrite(env, reg, val) ==
    [b \in TspBits |-> IF b \in EnvcfgBits(reg) THEN b \in val ELSE env[b]]

\* PrivilegeLevelToV: the V bit of a privilege level, set for VS and VU.
PrivilegeLevelToV(p) == p \in {"VS", "VU"}

\* swap_stack_pointer: sp and the trap stack pointer register r exchange.
SwapStackPointer(c, r) == [c EXCEPT !.sp = c.tsp[r], !.tsp[r] = c.sp]

\* stsp_swap_sp_on_mode_change(base, desc): base is the level trapped to or
\* whose xRET runs, desc the mode trapped from or returned to.  M swaps
\* with mtsp for any other mode, VS with vstsp for VU; HS swaps with htsp
\* for a virtual mode and then with stsp for U.
StspSwapSpOnModeChange(c, base, desc) ==
    CASE base = "M"  -> IF c.env["mtsp"] /\ desc # "M" THEN SwapStackPointer(c, "mtsp") ELSE c
      [] base = "VS" -> IF c.env["vgtsp"] /\ desc # "VS" THEN SwapStackPointer(c, "vstsp") ELSE c
      [] base = "S"  ->
           LET c1 == IF c.env["htsp"] /\ PrivilegeLevelToV(desc) THEN SwapStackPointer(c, "htsp") ELSE c
           IN  IF c1.env["stsp"] /\ ~PrivilegeLevelToV(desc) /\ desc # "S" THEN SwapStackPointer(c1, "stsp") ELSE c1

\* switch_to_trap_handler: xPIE <- xIE, xIE <- 0, xPP <- previous mode,
\* and the stack pointer swap for the mode trapped from.
SwitchToTrapHandler(c, l) ==
    StspSwapSpOnModeChange(
        [c EXCEPT !.prv = l, !.pie[l] = c.ie[l], !.ie[l] = FALSE, !.pp[l] = c.prv], l, c.prv)

\* return_from_trap_handler: back to xPP with xIE <- xPIE, xPIE <- 1 and
\* xPP <- the least privileged mode; then the stack pointer swap for the
\* mode returned to.
ReturnFromTrapHandler(c, l) ==
    LET c1 == [c EXCEPT !.prv = c.pp[l], !.ie[l] = c.pie[l], !.pie[l] = TRUE,
                        !.pp[l] = IF l = "VS" THEN "VU" ELSE "U"]
    IN  StspSwapSpOnModeChange(c1, l, c1.prv)

\* The file that serves level l (for VS the connected guest's).
FileOf(h, l) == CASE l = "M" -> h.mfile [] l = "S" -> h.sfile [] l = "VS" -> h.vsfile[h.vgein]

\* notify_irq_taken: in NV mode the file's eithreshold takes topei, then
\* claim_topei_interrupt_internal clears it (S: not when SEI is injected;
\* VS: only with a guest file connected).
NotifyIrqTakenApplies(h, l) ==
    /\ h.nv[l]
    /\ l = "S" => SEI \notin SInjected(h)
    /\ l = "VS" => h.vgein # 0

NotifyIrqTaken(h, l) ==
    IF ~NotifyIrqTakenApplies(h, l) THEN h
    ELSE LET h1 == CASE l = "M" -> [h EXCEPT !.mfile.th = UpdateWithNewIrq(@, h.topei["M"])]
                     [] l = "S" -> [h EXCEPT !.sfile.th = UpdateWithNewIrq(@, h.topei["S"])]
                     [] l = "VS" -> [h EXCEPT !.vsfile[h.vgein].th = UpdateWithNewIrq(@, h.topei["VS"])]
         IN  ClaimTopeiInterrupt(h1, l, FALSE)

\* nv_mode_get_ivt_line_num: topei's identity, 256 for an injected S
\* external interrupt, capped at NV_MODE_MAX_VECTOR.  The scaled model
\* keeps 256 as NV_MODE_MAX_VECTOR + 1.
IvtXtopei(h, l) ==
    IF l = "S" /\ SEI \in SInjected(h) THEN NVMaxVector + 1 ELSE h.topei[l]

\* Mutant of NvModeGetIvtLineNum: the line is read after notify_irq_taken.
NvModeGetIvtLineNumAfterClaim(h, l) ==
    LET x == IvtXtopei(NotifyIrqTaken(h, l), l)
    IN  IF x >= NVMaxVector THEN NVMaxVector ELSE x

NvModeGetIvtLineNum(h, l) ==
    IF IvtXtopei(h, l) >= NVMaxVector THEN NVMaxVector ELSE IvtXtopei(h, l)

\* The assertions the dispatch of an interrupt to l can fail:
\* assert(xtopei) of nv_mode_get_ivt_line_num and assert(is_valid_minor_iid)
\* of tstack_insert reached from update_with_new_irq.
DispatchFault(h, l) ==
    \/ h.nv[l] /\ IvtXtopei(h, l) = 0
    \/ NotifyIrqTakenApplies(h, l) /\ UpdateWithNewIrqFails(FileOf(h, l).th, h.topei[l])
-----------------------------------------------------------------------------
(* Arbitration among a level's pending interrupts (recalc_xtopi).          *)

\* struct irq_cprio (irq-prio.h): a key ordered by explicit priority, 0
\* the highest, then by the rank of the identity in the default order of
\* the privileged specification.  Keys of one arbitration share a level.
\* The hvictl DPR bit is 0 in every modelled hvictl value.
DefaultOrder == <<MEI, MSI, MTI, SEI, SSI, STI, SGEI, VSEI, VSSI, VSTI, LCOFI>>
DefaultRank(iid) == CHOOSE k \in DOMAIN DefaultOrder : DefaultOrder[k] = iid
Cprio(prio, iid) == <<prio, DefaultRank(iid)>>
CprioLess(a, b) == a[1] < b[1] \/ (a[1] = b[1] /\ a[2] < b[2])

\* irq_cprio::LOWEST_NONEXISTING_CPRIO: below every existing key (the
\* lowest existing priority is 256).
NonExistingCprio == <<257, 0>>

\* irq_cprio::to_iprio: the 8-bit IPRIO field of xtopi.
ToIprio(c) == IF c[1] > 255 THEN 255 ELSE c[1]

\* csr_hvictl::is_external_injected (VTI is not consulted).
IsExternalInjected(h) == h.hvictl.iid = SEI /\ h.hvictl.iprio # 0

\* get_external_cprio: 256 (lowest) for an S external interrupt injected
\* through mvien/mvip; at VS the guest file's topei when a guest is
\* connected and topei is not 0, hvictl's priority when no guest is
\* connected and hvictl injects it, 256 otherwise; elsewhere the file's
\* topei (get_external_cprio_generic).
GetExternalCprio(h, l) ==
    LET x == ExternalIid(l)
    IN  CASE l = "S" /\ SEI \in SInjected(h) -> Cprio(256, x)
          [] l = "VS" /\ h.vgein # 0 /\ h.topei["VS"] # 0 -> Cprio(h.topei["VS"], x)
          [] l = "VS" /\ h.vgein = 0 /\ IsExternalInjected(h) -> Cprio(h.hvictl.iprio, x)
          [] l = "VS" -> Cprio(256, x)
          [] OTHER -> Cprio(h.topei[l], x)

\* get_local_cprio: a VS identity injected through hvictl takes hvictl's
\* priority, every other the level's iprio entry (get_iprio).
GetLocalCprio(h, l, iid) ==
    IF l = "VS" /\ IsLocalInjected(h) /\ TransformVsToS(iid) = h.hvictl.iid
    THEN Cprio(h.hvictl.iprio, iid)
    ELSE Cprio(GetIprio(h, l, iid), iid)

\* major_irq_to_prio: the level's own external interrupt, or a local one.
MajorIrqToPrio(h, l, iid) ==
    IF iid = ExternalIid(l) THEN GetExternalCprio(h, l) ELSE GetLocalCprio(h, l, iid)

\* major_irq_prepare_iid_prio: the identities in ascending order, a
\* pending one replacing the best so far only when its key is strictly
\* lower.  Called with a non-empty pending set, so the runtime_error for
\* a non-existing key is never thrown.
MajorIrqPrepareIidPrio(h, l, pend) ==
    LET step(best, i) ==
            IF i \in pend /\ CprioLess(MajorIrqToPrio(h, l, i), best.cprio)
            THEN [iid |-> i, cprio |-> MajorIrqToPrio(h, l, i)]
            ELSE best
        r == FoldLeft(step, [iid |-> 0, cprio |-> NonExistingCprio], MajorIids)
    IN  [iid |-> r.iid, iprio |-> ToIprio(r.cprio)]

\* recalc_xtopi on the processed pendings: mtopi, stopi and vstopi hold
\* the winner (VS identities at their S places), 0 when nothing is pending.
RecalcXtopi(h, p) ==
    [h EXCEPT !.topi =
        [l \in Levels |->
            IF p[l] = {} THEN NoTopi
            ELSE LET r == MajorIrqPrepareIidPrio(h, l, p[l])
                 IN  [r EXCEPT !.iid = IF l = "VS" THEN TransformVsToS(@) ELSE @]]]

\* prepare_interrupt at target level l: xcause.exception_code <- xtopi.iid.
SetCause(h, l) == [h EXCEPT !.cause[l] = h.topi[l].iid]

-----------------------------------------------------------------------------
(* The hart: software operations, hardware events and the interrupt check  *)
(* that ends every run_step.                                               *)

CONSTANTS
    Ops,        \* the software operations (op records) the harts' code issues
    HwEvents,   \* the <<kind, level, status>> timer/software line changes
    MsiWrites,  \* the <<page, value>> writes of the IMSIC MMIO pages
    BootOps     \* the operations boot code issues in M mode before the run

VARIABLES
    h,       \* interrupt registers and IMSIC files
    cpu,     \* prv, the xIE/xPIE/xPP status fields and the pending IVT line
    phase,   \* "exec": between run_steps; "check": prepare_interrupt is due
    boot     \* the boot code's operations not yet executed

vars == <<h, cpu, phase, boot>>

NoIvt == -1

\* vs_icsrs_access_check: the vgein bank maps the iprio registers for every
\* vgein, the file registers only for a guest (icsr_vs_table::is_valid_addr).
VsIcsrsValid(w) == w.reg = "iprio" \/ h.vgein # 0

\* The privilege a software operation needs (guards of set_csr_value, the
\* access checks that raise instead of writing, and xRET legality).
PrivOk(op, prv) ==
    LET hs == prv \in {"M", "S"}
        atLeast(l) == CASE l = "M" -> prv = "M" [] l = "S" -> hs [] l = "VS" -> prv \in {"M", "S", "VS"}
        sInjectedTrap == prv = "S" /\ SEI \in SInjected(h)
    IN  CASE op.kind = "clint" ->
                IF op.reg \in {"mip", "mie", "mvip", "mvien", "mideleg"} THEN prv = "M" ELSE hs
          [] op.kind \in {"xtvec", "status", "pp"} -> atLeast(op.level)
          [] op.kind \in {"hstatus", "hgeie", "hvictl", "hviprio"} -> hs
          [] op.kind = "envcfg" -> IF op.reg = "menvcfg" THEN prv = "M" ELSE hs
          [] op.kind = "tsp" -> IF op.reg = "mtsp" THEN prv = "M" ELSE hs
          [] op.kind = "xtopei" ->
                /\ atLeast(op.level)
                /\ op.level = "S" => ~sInjectedTrap
                /\ op.level = "VS" => h.vgein # 0
          [] op.kind = "xireg" ->
                /\ atLeast(op.level)
                /\ op.level = "S" => ~sInjectedTrap
                /\ op.level = "VS" => VsIcsrsValid(op.w)
          [] op.kind = "xret" -> IF op.level = "VS" THEN prv = "VS" ELSE atLeast(op.level)
          [] op.kind = "nop" -> TRUE

\* The effect of an operation on the CPU status fields.
CpuOp(c, op) ==
    CASE op.kind = "status" -> [c EXCEPT !.ie[op.level] = op.val]
      [] op.kind = "envcfg" -> [c EXCEPT !.env = CsrEnvcfgCheckedWrite(c.env, op.reg, op.val)]
      [] op.kind = "tsp"    -> [c EXCEPT !.tsp[op.reg] = op.val]
      [] op.kind = "pp"     -> [c EXCEPT !.pp[op.level] = op.val]
      [] op.kind = "xret"   -> ReturnFromTrapHandler(c, op.level)
      [] OTHER              -> c

\* Reset; the boot code's CSR writes then run in M mode (BootStep).
Init ==
    /\ h = ResetH
    /\ cpu = [prv |-> "M", ie |-> [l \in Levels |-> FALSE], pie |-> [l \in Levels |-> FALSE],
              pp |-> [l \in Levels |-> IF l = "VS" THEN "VU" ELSE "U"], ivt |-> NoIvt,
              sp |-> 0, tsp |-> [r \in TspRegs |-> 0], env |-> [b \in TspBits |-> FALSE]]
    /\ phase = "exec"
    /\ boot = BootOps

\* One CSR write of the boot code (M mode, every write legal, interrupts
\* disabled), and the interrupt check after it, which takes no trap and
\* recomputes xtopi.
BootStep ==
    /\ boot # <<>>
    /\ LET h1 == ApplyOp(h, Head(boot))
       IN  h' = RecalcXtopi(h1, ProcessPendings(h1, PendingsOf(h1)))
    /\ cpu' = CpuOp(cpu, Head(boot))
    /\ boot' = Tail(boot)
    /\ UNCHANGED phase

\* run_step: process_pending_ivt, then one instruction (exec_step); the
\* interrupt check that follows is NoInterrupt or TakeInterrupt.
Exec(op) ==
    /\ phase = "exec" /\ boot = <<>>
    /\ PrivOk(op, cpu.prv)
    /\ h' = ApplyOp(h, op)
    /\ cpu' = [CpuOp(cpu, op) EXCEPT !.ivt = NoIvt]
    /\ phase' = "check"
    /\ UNCHANGED boot

\* trigger_timer_interrupt / trigger_software_interrupt from the CLINT
\* between two run_steps.
HwIrq(kind, l, status) ==
    /\ phase = "exec" /\ boot = <<>>
    /\ h' = ClintHwIrqRoute(h, HwSourceIid(kind, l), status)
    /\ UNCHANGED <<cpu, phase, boot>>

\* A bus write to the IMSIC MMIO region between two run_steps.
ImsicMmioWrite(page, value) ==
    /\ phase = "exec" /\ boot = <<>>
    /\ h' = OnImsicMmioWrite(h, page, value)
    /\ UNCHANGED <<cpu, phase, boot>>

Pending == ProcessPendings(h, PendingsOf(h))
Target == ComputePendingInterrupt(Pending, cpu)

\* prepare_interrupt finds nothing to take.  Both check actions need the
\* assertions of the path to hold: where one fails the simulation stops.
NoInterrupt ==
    /\ phase = "check"
    /\ SanitizeVsExternalPendOk(h, Pending)
    /\ Target = "none"
    /\ h' = RecalcXtopi(h, Pending)
    /\ phase' = "exec"
    /\ UNCHANGED <<cpu, boot>>

\* prepare_interrupt + switch_to_trap_handler + jump_to_trap_vector: xtopi
\* is recomputed and its identity becomes the target's xcause, the trap is
\* taken, the IVT line recorded in NV mode, and notify_irq_taken updates
\* the level's IMSIC file.
TakeInterrupt ==
    /\ phase = "check"
    /\ SanitizeVsExternalPendOk(h, Pending)
    /\ Target # "none"
    /\ ~DispatchFault(h, Target)
    /\ h' = NotifyIrqTaken(SetCause(RecalcXtopi(h, Pending), Target), Target)
    /\ cpu' = [SwitchToTrapHandler(cpu, Target) EXCEPT
                 !.ivt = IF h.nv[Target] THEN NvModeGetIvtLineNum(h, Target) ELSE NoIvt]
    /\ phase' = "exec"
    /\ UNCHANGED boot

Next ==
    \/ BootStep
    \/ \E op \in Ops : Exec(op)
    \/ \E e \in HwEvents : HwIrq(e[1], e[2], e[3])
    \/ \E m \in MsiWrites : ImsicMmioWrite(m[1], m[2])
    \/ NoInterrupt
    \/ TakeInterrupt

Spec == Init /\ [][Next]_vars

-----------------------------------------------------------------------------
(* Properties.                                                             *)

TypeOK ==
    /\ h.mip \subseteq MIP_READ_MASK /\ h.mie \subseteq MIE_WRITE_MASK
    /\ h.mfile \in FileType /\ h.sfile \in FileType
    /\ h.vsfile \in [Guests -> FileType]
    /\ h.iprio \in [{"M", "S"} -> [IprioIids -> 0 .. 255]]
    /\ h.vsiprio \in [0 .. MaxGuest -> [IprioIids -> 0 .. 255]]
    /\ h.vgein \in 0 .. MaxGuest /\ h.hgeip \subseteq Guests /\ h.hgeie \subseteq Guests
    /\ h.topei \in [Levels -> 0 .. (2 * ImsicMaxIrqs - 1)]
    /\ h.nv \in [Levels -> BOOLEAN]
    /\ h.topi \in [Levels -> [iid : {0} \cup Range(MajorIids), iprio : 0 .. 255]]
    /\ h.cause \in [Levels -> {0} \cup Range(MajorIids)]
    /\ cpu.prv \in Privs /\ cpu.pp \in [Levels -> Privs]
    /\ cpu.ivt \in {NoIvt} \cup 0 .. NVMaxVector
    /\ cpu.sp \in Nat /\ cpu.tsp \in [TspRegs -> Nat] /\ cpu.env \in [TspBits -> BOOLEAN]
    /\ phase \in {"exec", "check"}

\* Every interrupt line an IMSIC file drives agrees with the file's
\* current contents after every entry point: mip.MEIP and mip.SEIP with
\* the M and S files, mip.VSEIP with the connected guest's file (clear
\* with none connected), each hgeip bit with its guest file, and mip.SGEIP
\* with hgeip & hgeie.  This is the closure the compute_imsic_pending_*
\* and recalc_sgeip calls of every CSR, MMIO and trap path must keep.
ImsicLinesFresh ==
    /\ (MEI \in h.mip) = ComputeImsicPending(h.mfile, h.nv["M"])[1]
    /\ (SEI \in h.mip) = ComputeImsicPending(h.sfile, h.nv["S"])[1]
    /\ (VSEI \in h.mip) = (h.vgein # 0 /\ ComputeImsicPending(h.vsfile[h.vgein], h.nv["VS"])[1])
    /\ h.hgeip = {g \in Guests : ComputeImsicPending(h.vsfile[g], h.nv["VS"])[1]}
    /\ (SGEI \in h.mip) = (h.hgeip \cap h.hgeie # {})

\* Every topei register holds what its file computes now.
TopeiFresh ==
    \A l \in Levels :
        h.topei[l] = IF l = "VS" /\ h.vgein = 0 THEN 0 ELSE SetTopei(FileOf(h, l), h.nv[l])

\* No assertion of the interrupt path fails when prepare_interrupt runs:
\* the sanitize_vs_external_pend checks of recalc_xtopi, and for the
\* level chosen, assert(xtopei) of nv_mode_get_ivt_line_num and the
\* minor-identity check tstack_insert makes for notify_irq_taken.
AssertionsHold ==
    phase = "check" =>
        /\ SanitizeVsExternalPendOk(h, Pending)
        /\ Target # "none" => ~DispatchFault(h, Target)

\* An identity "rises" at level l in a step when it becomes pending at l,
\* its owner level, and l is in NV mode and can take an MSI (for VS a
\* guest file is connected) and iprio gives it a minor identity.
Rises(iid, l) ==
    /\ iid \in PendingsOf(h')[l] \ PendingsOf(h)[l]
    /\ iid # ExternalIid(l)
    /\ h'.nv[l]
    /\ l = "VS" => h'.vgein # 0
    /\ GetIprio(h', l, iid) # 0

\* The minor identity of a risen identity is pending in l's file after the step.
Mirrored(iid, l) == GetIprio(h', l, iid) \in FileOf(h', l).eip

\* The identities that are no level's external interrupt.
LocalIids == {iid \in Range(MajorIids) : iid \notin {MEI, SEI, VSEI}}

\* Local edge delivery (deliver_clint_changes_to_imsics): in every step,
\* a timer, software, guest-external or counter-overflow interrupt that
\* newly becomes pending at an NV level is written into that level's
\* IMSIC file as its iprio minor identity.
LocalEdgeMirrored ==
    [][\A l \in Levels, iid \in LocalIids : Rises(iid, l) => Mirrored(iid, l)]_vars

\* Edge delivery as the cascade promises it (spec 4.6): every identity
\* that newly becomes pending at an NV level, the lower levels' external
\* interrupts included, is mirrored into that level's IMSIC file.
EdgeMirrored ==
    [][\A l \in Levels, iid \in Range(MajorIids) : Rises(iid, l) => Mirrored(iid, l)]_vars

\* TopInterrupt as spec 3 describes it: derived, recomputed on every
\* relevant mutation and never left stale.  Whenever the next instruction
\* can run, mtopi, stopi and vstopi hold what recalc_xtopi computes from
\* the current interrupt registers.
XtopiFresh ==
    phase = "exec" /\ boot = <<>> => h.topi = RecalcXtopi(h, Pending).topi

\* A trap into level l: the interrupt check that changes the CPU state.
TrapTaken(l) == phase = "check" /\ cpu' # cpu /\ cpu'.prv = l

\* Nested-vectored trap entry (jump_to_trap_vector, notify_irq_taken): when
\* the trap claims from the level's IMSIC file, exactly one identity x
\* leaves the file, the pending IVT line is x's vector-table line (x, or
\* the last line NV_MODE_MAX_VECTOR for an identity beyond the table),
\* the file's threshold then blocks that line, and xcause names the
\* level's external interrupt (S numbering at VS).
TrapLineClaimed ==
    [][\A l \in Levels :
         TrapTaken(l) /\ NotifyIrqTakenApplies(h, l) =>
            \E x \in FileOf(h, l).eip :
               /\ FileOf(h, l).eip \ FileOf(h', l).eip = {x}
               /\ cpu'.ivt = IF x >= NVMaxVector THEN NVMaxVector ELSE x
               /\ FileOf(h', l).th.reg \in 1 .. cpu'.ivt
               /\ h'.cause[l] = TransformVsToS(ExternalIid(l))]_vars

=============================================================================
