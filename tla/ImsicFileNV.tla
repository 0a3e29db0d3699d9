------------------------------ MODULE ImsicFileNV ------------------------------
(***************************************************************************)
(* The machine-level IMSIC file of one hart running in nested-vectored     *)
(* mode (mtvec.mode = SnpsNestedVectored), driven by the entry points of   *)
(* src/vp/src/core/rv32/iss.cpp that touch it: MSI writes                  *)
(* (route_imsic_write), trap entry (notify_irq_taken), writes of mtopei    *)
(* (claim_topei_interrupt_on_xtopei) and writes of eithreshold through     *)
(* mireg.  Every entry point ends with compute_imsic_pending_interrupts_m, *)
(* which stores the file's line (mip.MEIP) and mtopei.  The file is        *)
(* enabled for every identity and its delivery gate is on; those          *)
(* registers are varied in the hart model.                                 *)
(***************************************************************************)
EXTENDS Imsic, SequencesExt

VARIABLES
    file,    \* icsrs_m: eip, eie, eidelivery, eithreshold
    meip,    \* mip bit 11 as written by hw_write_mip
    topei    \* the iid field of csrs.mtopei

vars == <<file, meip, topei>>

\* compute_imsic_pending_interrupts_m (nested_vectored = TRUE in this mode).
ComputeM(f) ==
    /\ file' = f
    /\ meip' = ComputeImsicPending(f, f.th.nv)[1]
    /\ topei' = SetTopei(f, f.th.nv)

\* The file after the mtvec write that selected nested-vectored mode
\* (update_interrupt_mode -> set_mode_snps_vectored).
Init ==
    LET f == [FileInit EXCEPT !.eie = Eiids, !.delivery = TRUE,
                              !.th = SetModeSnpsVectored(@, TRUE)]
    IN  /\ file = f
        /\ meip = ComputeImsicPending(f, TRUE)[1]
        /\ topei = SetTopei(f, TRUE)

\* route_imsic_write(MachineMode, _, value): an MSI to the M page.
RouteImsicWrite(value) == ComputeM(ImsicUpdateEipBit(file, value, TRUE))

\* notify_irq_taken(MachineMode) when the M external interrupt is taken:
\* the topei identity is pushed on the threshold stack, then
\* claim_topei_interrupt_internal clears that identity's eip bit.
TakeInterrupt ==
    /\ meip
    /\ ~UpdateWithNewIrqFails(file.th, topei)
    /\ LET f1 == [file EXCEPT !.th = UpdateWithNewIrq(@, topei)]
       IN  ComputeM(ClaimTopei(f1, topei, FALSE))

\* A write of mtopei: a write-only write of 0 in this mode pops the
\* threshold stack, any other write claims the stored topei.
XtopeiWrite(value, access_write_only) ==
    LET mark == file.th.nv /\ value = 0 /\ access_write_only
    IN  ComputeM(ClaimTopei(file, topei, mark))

\* A write of eithreshold through mireg (MIREG_ADDR case of set_csr_value).
EithresholdWrite(value) == ComputeM([file EXCEPT !.th = CheckedWrite(@, value)])

\* The eithreshold values software writes in the nesting protocol: 0 to
\* pop, and the tail values above the vector table.
ProtocolThresholds == {0} \cup {v \in MinorIds : IsTailedIid(v)}

Next ==
    \/ \E v \in Eiids : RouteImsicWrite(v)
    \/ TakeInterrupt
    \/ \E v \in {0, 1}, wo \in BOOLEAN : XtopeiWrite(v, wo)
    \/ \E v \in ProtocolThresholds : EithresholdWrite(v)

Spec == Init /\ [][Next]_vars

-----------------------------------------------------------------------------
TypeOK ==
    /\ file \in FileType
    /\ meip \in BOOLEAN
    /\ topei \in 0 .. (2 * ImsicMaxIrqs - 1)

\* The thresholds[] array and threshold_tail seen as the abstract LIFO of
\* ThresholdStack: the head eithreshold.reg (when stackable) followed by
\* the recorded entries in ascending order, and the tail as the floor.
StackOf(t) ==
    IF IsRegUnstackable(t) THEN <<>>
    ELSE <<t.reg>> \o SetToSortSeq(t.stk, LAMBDA a, b : a < b)

Abstract == INSTANCE ThresholdStack
    WITH stack <- StackOf(file.th), floor <- file.th.tail,
         Lines <- 1 .. NVMaxVector, Floors <- ProtocolThresholds \ {0}

\* Nested-vectored nesting is a LIFO: every interrupt taken at the M level
\* pushes its vector line (its identity, capped at NV_MODE_MAX_VECTOR) and
\* is taken only when that line is below the current threshold, and every
\* pop through mtopei or eithreshold restores the threshold in force before
\* the most recent push: the array-and-tail implementation of
\* icsr_eithreshold refines ThresholdStack.
ImplementsThresholdStack == Abstract!Spec
=============================================================================
