-------------------------------- MODULE MCAplic --------------------------------
(***************************************************************************)
(* Model-checking instances of Aplic: one core, two domains, IMSIC         *)
(* identities 1..3 and one or two wired sources.  Each run fixes the       *)
(* register values software may write; the cfg picks the sets.             *)
(***************************************************************************)
EXTENDS Aplic

MCNVMaxVector == 2
MCImsicMaxIrqs == 4
MCMaxGuest == 1

Cfg(d, low) == [d |-> d, low |-> low]
Tgt(hart, eiid) == [hart |-> hart, eiid |-> eiid]

\* The reset MSI address.
MCMsiaddrReset == { <<MmsiaddrcfgReset, MmsiaddrcfghReset>> }

\* Targets with two identities.
MCTargetDelivery == { Tgt(0, 1), Tgt(0, 2) }

\* Sources configured rising-edge only, or level-high only.
MCSourcecfgEdge1 == { Cfg(FALSE, EDGE1) }
MCSourcecfgLevel == { Cfg(FALSE, LEVEL1) }
=============================================================================
