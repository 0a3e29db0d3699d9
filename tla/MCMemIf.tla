------------------------------- MODULE MCMemIf -------------------------------
(***************************************************************************)
(* Constants for checking MemIf with TLC: a 1 KiB physical address space.  *)
(* The SMPU has two regions: protected granules at 0 and 32 and a          *)
(* translated 256-byte page at 256.  The SPMP has two entries: a U-only RX *)
(* NAPOT block, an S-only RW TOR range, a reserved NA4 word or a shared RW *)
(* NAPOT block, bounded by word 1, 4 or 11.                                *)
(***************************************************************************)
EXTENDS MemIf

\* smpuaddr writes: protected regions at 0 and 32, and a translated region
\* written with size 3, which checked_write clamps to 2^8 at 256.
MCSmpuaddrValues == {0, 32, 256 + 3}

\* smpuconf writes (size field * 32 + U R W X): an S-mode RX granule, a
\* U-mode RX granule, two granules of S-mode RWX, the shared read-only
\* encoding RWX = 010, and a granule with no permissions.
MCSmpuconfValues == {5, 13, 32 + 7, 2, 0}

MCMaskValues == {{}, {0}, {1}, {0, 1}}

SpmpCfg(r, w, x, a, s) == [r |-> r, w |-> w, x |-> x, a |-> a, s |-> s]

\* spmpcfg bytes (A: 1 TOR, 2 NA4, 3 NAPOT).
MCCfgValues ==
    {SpmpCfg(TRUE, FALSE, TRUE, 3, FALSE),
     SpmpCfg(TRUE, TRUE, FALSE, 1, TRUE),
     SpmpCfg(FALSE, FALSE, FALSE, 2, TRUE),
     SpmpCfg(FALSE, TRUE, TRUE, 3, FALSE)}

\* spmpaddr writes: word 1 (a 16-byte NAPOT block or a TOR bound at 4),
\* word 4, word 11 (a 32-byte NAPOT block).
MCAddrValues == {1, 4, 11}

\* SMPU accesses.  pc values: inside the first granule, its last halfword
\* and word, the second granule, and the translated page.
MCFetchAddrs == {0, 28, 30, 32, 300}
MCDataAddrs == {28, 32, 64, 300}
MCDataSizes == {1, 4}

\* SPMP accesses, under each privilege and under MPRV with MPP=S: fetches at
\* 0 (inside every block) and at 14 (a 4-byte fetch at a halfword pc that
\* straddles the end of a 16-byte block), data at word 0, at byte 17 (inside
\* the NA4 word at 16, the end of a TOR range bounded by word 4) and word 5,
\* each of 1 and 4 bytes.
MCSpmpFetchAddrs == {0, 14}
MCSpmpDataAddrs == {0, 17, 20}
MCSpmpDataSizes == {1, 4}
MCMprvModes == {"S"}
=============================================================================
