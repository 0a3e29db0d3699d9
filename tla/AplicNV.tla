-------------------------------- MODULE AplicNV --------------------------------
(***************************************************************************)
(* The APLIC composed with a hart whose machine level runs in              *)
(* nested-vectored mode: run() and genmsi send MSIs through ImsicMem to    *)
(* the M file, and the hart takes them with notify_irq_taken, pops its     *)
(* threshold stack through mtopei and sets the floor through mireg         *)
(* (ImsicFileNV).  The file is the one variable the two share.  mip.MEIP   *)
(* and mtopei are what compute_imsic_pending_interrupts_m derives from     *)
(* the file; every ImsicFileNV action ends with that computation, so here  *)
(* they are the derived values themselves.                                 *)
(***************************************************************************)
EXTENDS Aplic

Hart == INSTANCE ImsicFileNV
    WITH file <- mfile,
         meip <- ComputeImsicPending(mfile, mfile.th.nv)[1],
         topei <- SetTopei(mfile, mfile.th.nv)

\* The hart has put mtvec in nested-vectored mode (update_interrupt_mode),
\* enabled every identity of its M file and turned delivery on before it
\* hands the APLIC to software.
NVInit ==
    /\ AplicInit
    /\ mfile = [FileInit EXCEPT !.eie = Eiids, !.delivery = TRUE,
                                !.th = SetModeSnpsVectored(@, TRUE)]

AplicVars == <<sourcecfg, target, ip, ie, domIE, msiaddr, eRun>>

\* A step of the hart on its M file; the APLIC's registers stay.
HartStep(A) == A /\ UNCHANGED AplicVars

NVNext ==
    \/ AplicNext
    \/ HartStep(Hart!TakeInterrupt)
    \/ \E v \in {0, 1}, wo \in BOOLEAN : HartStep(Hart!XtopeiWrite(v, wo))
    \/ \E v \in Hart!ProtocolThresholds : HartStep(Hart!EithresholdWrite(v))

\* run() is resumed one clock after e_run is notified (see Aplic); the
\* hart takes, claims and pops when its software chooses: no fairness.
NVSpec == NVInit /\ [][NVNext]_vars /\ WF_vars(Run)

\* The threshold stack of the M file, driven by MSIs that the APLIC sends,
\* still behaves as the LIFO of ThresholdStack (see ImsicFileNV).
ImplementsThresholdStack == Hart!ImplementsThresholdStack
=============================================================================
