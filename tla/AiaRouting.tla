------------------------------ MODULE AiaRouting ------------------------------
(***************************************************************************)
(* Delegation/injection routing and pending aggregation of the CLINT       *)
(* interrupt registers (struct csrs_clint_pend, src/vp/src/core/rv32/      *)
(* csr.h, and compute_clint_pending_irq_bits_per_level, iss.cpp).  A       *)
(* 64-bit interrupt register is the set of major identities whose bit is   *)
(* set; every operator takes the register state record s with fields      *)
(*   mip mie mideleg hideleg mvien mvip msen hvien hvip hsen hvictl        *)
(* (msen and hsen are mvirt/hvirt.shadow_enables).                         *)
(***************************************************************************)
EXTENDS Naturals, FiniteSets

\* Major interrupt identities (trap-codes): software, timer, external
\* interrupts of each level, guest external and counter overflow.
SSI == 1
VSSI == 2
MSI == 3
STI == 5
VSTI == 6
MTI == 7
SEI == 9
VSEI == 10
MEI == 11
SGEI == 12
LCOFI == 13

\* The non-leveled causes modelled: LCOFI stands for the whole
\* MIx_NON_LEVELED_MASK (the vendor debug, RAS and watchdog causes are
\* routed by the same masks).
MIx_NON_LEVELED_MASK == {LCOFI}
MIx_LEVELED_MASK == 0 .. MEI
SIE_MASK == {SSI, STI, SEI}
HIE_MASK == {SGEI, VSSI, VSTI, VSEI}
MIE_MASK == {MSI, MTI, MEI} \cup SIE_MASK \cup HIE_MASK
VSIE_MASK == {VSSI, VSTI, VSEI}
MIx_VS_MASK == VSIE_MASK
VSIx_VS_MASK == SIE_MASK

MIE_WRITE_MASK == MIx_NON_LEVELED_MASK \cup MIE_MASK
SIE_WRITE_MASK == MIx_NON_LEVELED_MASK \cup SIE_MASK
SIE_READ_MASK == SIE_WRITE_MASK
HIE_WRITE_MASK == HIE_MASK
VSIE_WRITE_MASK == MIx_NON_LEVELED_MASK \cup VSIE_MASK
VSIE_READ_MASK == VSIE_WRITE_MASK
MIP_READ_MASK == MIE_MASK
\* MIx_IRQ_TYPE_EDGE_MASK is the non-leveled mask.
SIP_WRITE_INJECTED_MASK == (MIx_NON_LEVELED_MASK \cup SIE_MASK) \cap MIx_NON_LEVELED_MASK
SIP_READ_MASK == MIx_NON_LEVELED_MASK \cup SIE_MASK
HIP_READ_MASK == HIE_MASK
VSIP_WRITE_INJECTED_MASK == (MIx_NON_LEVELED_MASK \cup VSIE_MASK) \cap MIx_NON_LEVELED_MASK
VSIP_READ_MASK == MIx_NON_LEVELED_MASK \cup VSIE_MASK
MVIEN_MASK == MIx_NON_LEVELED_MASK \cup SIE_MASK
MVIP_MASK == MVIEN_MASK
HVIEN_MASK == MIx_NON_LEVELED_MASK
HVIP_MASK == MIx_NON_LEVELED_MASK \cup MIx_VS_MASK
HVIP_OR_MASK == VSIE_MASK
MIDELEG_READ_MASK == SIE_MASK \cup HIE_MASK
MIDELEG_WRITE_MASK == SIE_MASK
HIDELEG_MASK == MIx_VS_MASK

\* csr64_bit_ops::WRITE_LO_MASK: the bits a write of the low half reaches.
WRITE_LO_MASK == 0 .. 31

\* write_64(reg, mask, value): the bits of mask take value's bits.
Write64(reg, mask, value) == (reg \ mask) \cup (value \cap mask)

\* m_to_vs_bits / vs_to_m_bits: VS bits move between VS and S places.
MToVsBits(mix) == (mix \ MIx_LEVELED_MASK) \cup {i - 1 : i \in mix \cap MIx_VS_MASK}
VsToMBits(vsix) == (vsix \ MIx_LEVELED_MASK) \cup {i + 1 : i \in vsix \cap VSIx_VS_MASK}

\* s_route_masks: <<delegated, injected>> towards S.
SDelegated(s) == s.mideleg
SInjected(s) == s.mvien \ s.mideleg

\* csr_hideleg::checked_read_hideleg_64 (hideleg_m_extra_mask applied).
HidelegRead(s) == s.hideleg \cap HIDELEG_MASK \cap (SDelegated(s) \cup SInjected(s))

\* vs_route_masks: <<delegated, injected>> towards VS.
VSDelegated(s) == HidelegRead(s)
VSInjected(s) == s.hvien \ HidelegRead(s)

MidelegRead(s) == s.mideleg \cap MIDELEG_READ_MASK

\* xip::mip_routed_read_64: hardware bits ORed with the legacy hvip bits.
MipRoutedRead(s) == (s.mip \cup (s.hvip \cap HVIP_OR_MASK)) \cap MIP_READ_MASK

SipRoutedRead(s) ==
    ((SDelegated(s) \cap MipRoutedRead(s)) \cup (SInjected(s) \cap s.mvip)) \cap SIP_READ_MASK

SieRoutedRead(s) ==
    ((SDelegated(s) \cap s.mie) \cup (SInjected(s) \cap s.msen)) \cap SIE_READ_MASK

HipRead(s) == MipRoutedRead(s) \cap HIP_READ_MASK
HieRead(s) == s.mie \cap HIE_MASK

VsipRoutedRead(s) ==
    LET alias == (SipRoutedRead(s) \ MIx_LEVELED_MASK) \cup (HipRead(s) \cap MIx_LEVELED_MASK)
    IN  ((VSDelegated(s) \cap alias) \cup (VSInjected(s) \cap s.hvip)) \cap VSIP_READ_MASK

VsieRoutedRead(s) ==
    LET alias == (SieRoutedRead(s) \ MIx_LEVELED_MASK) \cup (HieRead(s) \cap MIx_LEVELED_MASK)
    IN  ((VSDelegated(s) \cap alias) \cup (VSInjected(s) \cap s.hsen)) \cap VSIE_READ_MASK

\* major_irq::transform_s_to_vs (irq-prio.h): an S-place identity of
\* hvictl names the VS interrupt one place up; only the standard ones.
TransformSToVsOk(iid) == iid \in VSIx_VS_MASK
TransformSToVs(iid) == iid + 1

\* csr_hvictl::is_local_injected
IsLocalInjected(s) == s.hvictl.vti /\ s.hvictl.iid # SEI

\* compute_clint_pending_irq_bits_per_level: per-level pending sets.
PendingsOf(s) ==
    LET vs0 == VsipRoutedRead(s) \cap VsieRoutedRead(s)
        inj == IF TransformSToVsOk(s.hvictl.iid) THEN {TransformSToVs(s.hvictl.iid)} ELSE {}
    IN  [M  |-> (s.mie \cap s.mip) \ MidelegRead(s),
         S  |-> ((SipRoutedRead(s) \cap SieRoutedRead(s)) \cup (HipRead(s) \cap HieRead(s)))
                    \ HidelegRead(s),
         VS |-> IF IsLocalInjected(s) THEN (vs0 \cap {VSEI}) \cup inj ELSE vs0]
\* The CLINT registers written through on_clint_csr_write (the h halves of
\* the RV32 pairs hold only identities above 31, none of them modelled).
ClintRegs == {"mip", "sip", "hip", "vsip", "mie", "sie", "hie", "vsie",
              "mvip", "mvien", "hvip", "hvien", "mideleg", "hideleg"}

\* checked_read_<reg>: the value a csrrs/csrrc reads before writing back.
ReadClint(s, r) ==
    CASE r = "mip"     -> MipRoutedRead(s)
      [] r = "sip"     -> SipRoutedRead(s)
      [] r = "hip"     -> HipRead(s)
      [] r = "vsip"    -> MToVsBits(VsipRoutedRead(s))
      [] r = "mie"     -> s.mie \cap MIE_WRITE_MASK
      [] r = "sie"     -> SieRoutedRead(s)
      [] r = "hie"     -> HieRead(s)
      [] r = "vsie"    -> MToVsBits(VsieRoutedRead(s))
      [] r = "mvip"    -> s.mvip \cap MVIP_MASK
      [] r = "mvien"   -> s.mvien \cap MVIEN_MASK
      [] r = "hvip"    -> s.hvip \cap HVIP_MASK
      [] r = "hvien"   -> s.hvien \cap HVIEN_MASK
      [] r = "mideleg" -> MidelegRead(s)
      [] r = "hideleg" -> HidelegRead(s)

\* xie::sie_routed_write_64 and xip::sip_routed_write_64 under write_mask.
SieRoutedWrite(s, wm, v) ==
    [s EXCEPT !.mie = Write64(@, wm \cap SIE_WRITE_MASK \cap SDelegated(s), v),
              !.msen = Write64(@, wm \cap SIE_WRITE_MASK \cap SInjected(s), v)]

SipRoutedWrite(s, wm, v) ==
    \* SIP_WRITE_DELEGATED_MASK is 0: only the injected (mvip) part is written.
    [s EXCEPT !.mvip = Write64(@, wm \cap SIP_WRITE_INJECTED_MASK \cap SInjected(s), v)]

\* xie::vsie_routed_write_64: delegated bits go to sie/hie, injected ones
\* to the hvirt shadow enables.
VsieRoutedWrite(s, vsv) ==
    LET v == VsToMBits(vsv)
        dm == VSIE_WRITE_MASK \cap VSDelegated(s)
        s1 == SieRoutedWrite(s, dm, v)
    IN  [s1 EXCEPT !.mie = Write64(@, dm \cap HIE_WRITE_MASK, v),
                   !.hsen = Write64(@, VSIE_WRITE_MASK \cap VSInjected(s), v)]

\* xip::vsip_routed_write_64: the delegated write masks are 0, so only
\* hvip's injected bits change.
VsipRoutedWrite(s, vsv) ==
    [s EXCEPT !.hvip = Write64(@, VSIP_WRITE_INJECTED_MASK \cap VSInjected(s), VsToMBits(vsv))]

\* The register switch of on_clint_csr_write (MIP_WRITE_MASK and
\* HIP_WRITE_MASK are 0: writes of mip and hip change nothing).
CheckedWriteClint(s, r, v) ==
    CASE r \in {"mip", "hip"} -> s
      [] r = "sip"     -> SipRoutedWrite(s, WRITE_LO_MASK, v)
      [] r = "vsip"    -> VsipRoutedWrite(s, v)
      [] r = "mie"     -> [s EXCEPT !.mie = Write64(@, MIE_WRITE_MASK, v)]
      [] r = "sie"     -> SieRoutedWrite(s, WRITE_LO_MASK, v)
      [] r = "hie"     -> [s EXCEPT !.mie = Write64(@, HIE_WRITE_MASK, v)]
      [] r = "vsie"    -> VsieRoutedWrite(s, v)
      [] r = "mvip"    -> [s EXCEPT !.mvip = Write64(@, MVIP_MASK, v)]
      [] r = "mvien"   -> [s EXCEPT !.mvien = Write64(@, MVIEN_MASK, v)]
      [] r = "hvip"    -> [s EXCEPT !.hvip = Write64(@, HVIP_MASK, v)]
      [] r = "hvien"   -> [s EXCEPT !.hvien = Write64(@, HVIEN_MASK, v)]
      [] r = "mideleg" -> [s EXCEPT !.mideleg = Write64(@, MIDELEG_WRITE_MASK, v)]
      [] r = "hideleg" ->
            [s EXCEPT !.hideleg = Write64(@, HIDELEG_MASK \cap (SDelegated(s) \cup SInjected(s)), v)]

\* csrs_clint_pend::xip::hw_write_mip: a hardware source drives one bit.
HwWriteMip(s, iid, set) ==
    [s EXCEPT !.mip = Write64(@, MIP_READ_MASK \cap {iid}, IF set THEN {iid} ELSE {})]

\* Every identity a write may target in the register r (its read mask,
\* in VS places for vsip and vsie).
ClintBits(r) ==
    CASE r \in {"mip", "mie"} -> MIE_WRITE_MASK
      [] r \in {"sip", "sie"} -> SIE_READ_MASK
      [] r \in {"hip", "hie"} -> HIE_MASK
      [] r \in {"vsip", "vsie"} -> MToVsBits(VSIE_READ_MASK)
      [] r \in {"mvip", "mvien"} -> MVIEN_MASK
      [] r = "hvip" -> HVIP_MASK
      [] r = "hvien" -> HVIEN_MASK
      [] r = "mideleg" -> MIDELEG_WRITE_MASK
      [] r = "hideleg" -> HIDELEG_MASK
=============================================================================
