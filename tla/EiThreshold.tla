----------------------------- MODULE EiThreshold -----------------------------
(***************************************************************************)
(* The eithreshold register of one IMSIC interrupt file (struct            *)
(* icsr_eithreshold, src/vp/src/core/rv32/csr.h).  In the vendor           *)
(* nested-vectored (NV) mode the register is the head of a threshold       *)
(* "stack": the array thresholds[1..NV_MODE_MAX_VECTOR] of flags holds the  *)
(* blocked entries and threshold_tail the value that is left when the      *)
(* stack is empty.  The register is a record                               *)
(*     [reg |-> eithreshold.reg, stk |-> {i : thresholds[i]},             *)
(*      tail |-> threshold_tail, nv |-> mode_snps_vectored]               *)
(* and every method of the struct is an operator from record to record.    *)
(***************************************************************************)
EXTENDS Naturals, FiniteSets, FiniteSetsExt

CONSTANTS
    NVMaxVector,   \* iss_config::NV_MODE_MAX_VECTOR (255 in the build)
    ImsicMaxIrqs   \* iss_config::IMSIC_MAX_IRQS (2048 in the build)

ASSUME NVMaxVector \in Nat \ {0}
ASSUME ImsicMaxIrqs \in Nat /\ NVMaxVector < ImsicMaxIrqs

\* Every value an eithreshold write may carry: is_upper_bound_valid_minor_iid.
MinorIds == 0 .. (ImsicMaxIrqs - 1)

\* Values above the vector table: "tail" values (is_tailed_iid).
IsTailedIid(v) == v > NVMaxVector

ThresholdType ==
    [reg : MinorIds, stk : SUBSET (1 .. NVMaxVector), tail : MinorIds, nv : BOOLEAN]

ThresholdInit == [reg |-> 0, stk |-> {}, tail |-> 0, nv |-> FALSE]

\* is_reg_unstackable: 0 and tail values are never put into thresholds[].
IsRegUnstackable(t) == t.reg = 0 \/ IsTailedIid(t.reg)

\* tstack_insert: the current head is recorded, the lower of the two stays.
TstackInsert(t, v) ==
    IF IsRegUnstackable(t)
    THEN [t EXCEPT !.reg = v]
    ELSE [t EXCEPT !.stk = @ \cup {t.reg},
                   !.reg = IF t.reg > v THEN v ELSE t.reg]

\* tstack_put_tail
TstackPutTail(t, v) ==
    [t EXCEPT !.tail = v, !.reg = IF IsRegUnstackable(t) THEN v ELSE t.reg]

\* Mutant of TstackPop: the highest recorded entry is revealed first.
TstackPopHighest(t) ==
    IF t.stk # {}
    THEN LET i == Max(t.stk) IN [t EXCEPT !.stk = @ \ {i}, !.reg = i]
    ELSE [t EXCEPT !.reg = t.tail]

\* tstack_pop: the lowest recorded entry becomes the head, else the tail.
TstackPop(t) ==
    IF t.stk # {}
    THEN LET i == Min(t.stk) IN [t EXCEPT !.stk = @ \ {i}, !.reg = i]
    ELSE [t EXCEPT !.reg = t.tail]

\* write_snps_vectored
WriteSnpsVectored(t, v) ==
    IF v = 0 THEN TstackPop(t)
    ELSE IF IsTailedIid(v) THEN TstackPutTail(t, v)
    ELSE TstackInsert(t, v)

\* checked_write: a guest write of eithreshold through *ireg.
CheckedWrite(t, v) ==
    IF v \in MinorIds
    THEN IF t.nv THEN WriteSnpsVectored(t, v) ELSE [t EXCEPT !.reg = v]
    ELSE t

\* update_with_new_irq (called by notify_irq_taken on trap entry); the
\* tstack_insert assertion is_valid_minor_iid fails for minor_iid = 0.
UpdateWithNewIrqFails(t, v) == t.nv /\ v = 0

UpdateWithNewIrq(t, v) ==
    IF ~t.nv THEN t
    ELSE IF IsTailedIid(v) THEN TstackInsert(t, NVMaxVector)
    ELSE TstackInsert(t, v)

\* mark_irq_as_handled
MarkIrqAsHandled(t) == TstackPop(t)

\* set_mode_snps_vectored: only the flag changes, the stack is kept.
SetModeSnpsVectored(t, isNV) == [t EXCEPT !.nv = isNV]

\* The threshold compute_imsic_pending applies: 0 lets every identity through.
EffectiveThreshold(t) == IF t.reg = 0 THEN ImsicMaxIrqs ELSE t.reg
=============================================================================
