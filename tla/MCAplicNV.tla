------------------------------- MODULE MCAplicNV -------------------------------
(***************************************************************************)
(* Model-checking instance of AplicNV: one core, two domains, one wired    *)
(* source, three vector-table lines and eight identities (4..7 are tail    *)
(* values).  The source's target names identity 1 or 2 and genmsi sends   *)
(* identity 3 or the tail identity 5, so the hart can nest three lines     *)
(* deep and take an identity beyond the table.                             *)
(***************************************************************************)
EXTENDS AplicNV

MCNVMaxVector == 3
MCImsicMaxIrqs == 8
MCMaxGuest == 1

Cfg(d, low) == [d |-> d, low |-> low]
Tgt(hart, eiid) == [hart |-> hart, eiid |-> eiid]

\* The reset MSI address, and an mmsiaddrcfgh with LHXW = 1 and LHXS = 1
\* under which hart 0 still maps to the M file.
MCMsiaddrSameHart ==
    { <<MmsiaddrcfgReset, MmsiaddrcfghReset>>, <<MmsiaddrcfgReset, 4096 + 1048576>> }
\* The source inactive or edge-sensitive; its target names identity 1 or
\* 2; genmsi sends identity 3 or 5.
MCSourcecfgEdge == { Cfg(FALSE, INACTIVE), Cfg(FALSE, EDGE1), Cfg(FALSE, EDGE0) }
MCTargetDelivery == { Tgt(0, 1), Tgt(0, 2) }
MCGenmsiNV == { Tgt(0, 3), Tgt(0, 5) }
=============================================================================
