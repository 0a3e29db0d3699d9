------------------------------- MODULE MCSmpu --------------------------------
(***************************************************************************)
(* Constants for checking Smpu with TLC: two regions in a 1 KiB address     *)
(* space, i.e. 32 granules of 32 bytes and four 256-byte NAPOT pages.       *)
(***************************************************************************)
EXTENDS Smpu

\* smpuaddr writes: protected regions at 0 and 32, and a translated region
\* written with size 3, which checked_write clamps to 2^8 at 256.
MCSmpuaddrValues == {0, 32, 256 + 3}

\* smpuconf writes (size field * 32 + U R W X): an S-mode RX granule, a
\* U-mode RX granule, two granules of S-mode RWX, the shared read-only
\* encoding RWX = 010, and a granule with no permissions.
MCSmpuconfValues == {5, 13, 32 + 7, 2, 0}

MCMaskValues == {{}, {0}, {1}, {0, 1}}

\* pc values: inside the first granule, its last halfword and word, the
\* second granule, and the translated page.
MCFetchAddrs == {0, 28, 30, 32, 300}

MCDataAddrs == {28, 32, 64, 300}
MCDataSizes == {1, 4}
====
