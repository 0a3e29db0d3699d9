-------------------------------- MODULE Imsic --------------------------------
(***************************************************************************)
(* One IMSIC interrupt file (struct icsr_ms_table / icsr_vs_table bank,    *)
(* src/vp/src/core/rv32/csr.h) and the pure functions of the ISS that      *)
(* read and update it (src/vp/src/core/rv32/iss.cpp).  The eip[] and eie[] *)
(* word arrays are abstracted to the sets of identities whose bit is set;  *)
(* the word/bit split of imsic_update_eip_bit and the ctz scan of          *)
(* compute_imsic_pending become set union, difference and minimum.         *)
(***************************************************************************)
EXTENDS EiThreshold

\* The interrupt identities of the file: bit 0 of eip[0] and eie[0] is not
\* implemented (EIP_EIE_0_MASK), so identity 0 is never set.
Eiids == 1 .. (ImsicMaxIrqs - 1)

\* compute_imsic_pending: the value above every identity returned as topei
\* when nothing is pending (NO_IRQ_PENDING).
NoIrqPending == 2 * ImsicMaxIrqs

\* Mutant of TopeiIidField: the identity stored without the field's width.
TopeiIidFieldUntruncated(v) == v

\* csr_topei keeps the identity in a 12-bit field; 2 * IMSIC_MAX_IRQS is
\* 2^12 in the build, so the field is modulo 2 * ImsicMaxIrqs here and
\* NO_IRQ_PENDING truncates to 0 exactly as it does in the build.
ASSUME \E k \in 1 .. ImsicMaxIrqs : 2 ^ k = ImsicMaxIrqs
TopeiIidField(v) == v % (2 * ImsicMaxIrqs)

FileType ==
    [eip : SUBSET Eiids, eie : SUBSET Eiids, delivery : BOOLEAN, th : ThresholdType]

FileInit == [eip |-> {}, eie |-> {}, delivery |-> FALSE, th |-> ThresholdInit]

\* imsic_update_eip_bit: identity 0 is ignored.
ImsicUpdateEipBit(f, value, set) ==
    IF value = 0 THEN f
    ELSE [f EXCEPT !.eip = IF set THEN @ \cup {value} ELSE @ \ {value}]

\* compute_imsic_pending: <<irq_pending, topei_val>>.  With delivery off the
\* file signals nothing and reports topei 0; otherwise the lowest enabled
\* pending identity is active, signalled when below the threshold, and
\* reported as topei when signalled or in nested-vectored mode.
ComputeImsicPending(f, nested_vectored) ==
    IF ~f.delivery THEN <<FALSE, 0>>
    ELSE LET ready == f.eip \cap f.eie
             active == IF ready = {} THEN NoIrqPending ELSE Min(ready)
             matched == active < EffectiveThreshold(f.th)
         IN  <<matched, IF matched \/ nested_vectored THEN active ELSE 0>>

\* set_topei: the topei CSR as the ISS stores it (identity field only).
SetTopei(f, nv) == TopeiIidField(ComputeImsicPending(f, nv)[2])

\* claim_topei_interrupt for one file, given the stored topei identity:
\* either pop the threshold stack or clear the identity's eip bit.
ClaimTopei(f, topeiIid, mark_irq_handled) ==
    IF mark_irq_handled
    THEN [f EXCEPT !.th = MarkIrqAsHandled(@)]
    ELSE ImsicUpdateEipBit(f, topeiIid, FALSE)
=============================================================================
