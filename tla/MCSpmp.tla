-------------------------------- MODULE MCSpmp --------------------------------
(***************************************************************************)
(* Model-checking instance of Spmp: two entries over a 64-byte address     *)
(* space.  Software configures an entry as a U-only RX NAPOT region, an    *)
(* S-only RW TOR region, a reserved NA4 word or a shared RW NAPOT region,  *)
(* and points it at word 1 (a 16-byte NAPOT block or a TOR bound), word 4  *)
(* or word 11 (a 32-byte NAPOT block).                                     *)
(***************************************************************************)
EXTENDS Spmp

Cfg(r, w, x, a, s) == [r |-> r, w |-> w, x |-> x, a |-> a, s |-> s]

MCCfgValues ==
    {Cfg(TRUE, FALSE, TRUE, ADDRMATCH_NAPOT, FALSE),
     Cfg(TRUE, TRUE, FALSE, ADDRMATCH_TOR, TRUE),
     Cfg(FALSE, FALSE, FALSE, ADDRMATCH_NA4, TRUE),
     Cfg(FALSE, TRUE, TRUE, ADDRMATCH_NAPOT, FALSE)}

MCAddrValues == {1, 4, 11}
MCFetchAddrs == {0, 14, 28}
MCDataAddrs == {0, 17, 20}
MCDataSizes == {1, 4}
MCMprvModes == {"S"}
=============================================================================
