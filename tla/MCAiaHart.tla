-------------------------------- MODULE MCAiaHart --------------------------------
(***************************************************************************)
(* Model-checking instances of AiaHart: one guest, vector lines 1..2 and   *)
(* IMSIC identities 1..3 (identity 3 is a tail value above the vector      *)
(* table).  Boot code connects guest 1, enables every identity of every    *)
(* IMSIC file and turns their delivery on; the runs then differ in which   *)
(* levels are put in nested-vectored mode and which sources can fire.      *)
(***************************************************************************)
EXTENDS AiaHart

MCMaxGuest == 1
MCNVMaxVector == 2
MCImsicMaxIrqs == 4

Clint(r, bit, set) == [kind |-> "clint", reg |-> r, bit |-> bit, set |-> set]
Ireg(l, r, v, set) == [kind |-> "xireg", level |-> l, w |-> [reg |-> r, val |-> v, set |-> set]]
\* The boot code's iprio values: identity 1 for the timers, 2 for the
\* software interrupts, 3 (a tail identity) for everything else.
MCIprioValue(i) ==
    IF i \in {MTI, STI, VSTI} THEN 1 ELSE IF i \in {MSI, SSI, VSSI} THEN 2 ELSE 3

\* The *ireg write of register iprio[k] of level l with those values.
IprioWrite(l, k) ==
    [kind |-> "xireg", level |-> l,
     w |-> [reg |-> "iprio", idx |-> k, val |-> [j \in 1 .. 4 |-> MCIprioValue(4 * k + j - 1)]]]

Xtvec(l, m) == [kind |-> "xtvec", level |-> l, mode |-> m]
Status(l, v) == [kind |-> "status", level |-> l, val |-> v]
Xret(l) == [kind |-> "xret", level |-> l]
Xtopei(l, v, wo) == [kind |-> "xtopei", level |-> l, val |-> v, writeOnly |-> wo]

\* Boot: guest 1 connected, hgeie on, the iprio registers of M, S and the
\* guest's bank written, every file enabled and delivering;
\* the timers and external interrupts delegated down to their levels and
\* enabled, SGEI enabled at S.
MCBootBase ==
    <<[kind |-> "hstatus", vgein |-> 1],
      [kind |-> "hgeie", val |-> {1}]>>
    \o [i \in 1 .. 12 |-> IprioWrite(<<"M", "S", "VS">>[((i - 1) \div 4) + 1], (i - 1) % 4)]
    \o [i \in 1 .. 3 |-> Ireg(<<"M", "S", "VS">>[i], "eidelivery", 1, TRUE)]
    \o [i \in 1 .. 9 |-> Ireg(<<"M", "S", "VS">>[((i - 1) \div 3) + 1], "eie", ((i - 1) % 3) + 1, TRUE)]
    \o <<Clint("mideleg", STI, TRUE), Clint("mideleg", SEI, TRUE),
         Clint("hideleg", VSTI, TRUE), Clint("hideleg", VSEI, TRUE),
         Clint("mie", MTI, TRUE), Clint("mie", MEI, TRUE), Clint("mie", SEI, TRUE),
         Clint("mie", STI, TRUE), Clint("mie", VSTI, TRUE), Clint("mie", VSEI, TRUE),
         Clint("mie", SGEI, TRUE)>>

\* ... and every level switched to nested-vectored mode.
MCBootNV == MCBootBase \o [i \in 1 .. 3 |-> Xtvec(<<"M", "S", "VS">>[i], SnpsNestedVectored)]

\* Delivery run: the CPU stays in M mode with interrupts disabled, so no
\* trap is taken; software toggles the guest, the guest enable and the S
\* timer enable, and rewrites the VS timer's priority in the bank of the
\* current vgein through hviprio1 and vsireg, while the timers and MSIs
\* fire.
MCOpsDelivery ==
    {[kind |-> "hstatus", vgein |-> g] : g \in {0, 1}}
    \cup {[kind |-> "hgeie", val |-> e] : e \in {{}, {1}}}
    \cup {Clint("mie", STI, b) : b \in BOOLEAN}
    \cup {[kind |-> "hviprio", reg |-> "hviprio1", val |-> <<0, 2, 0, p>>] : p \in {1, 3}}
    \cup {[kind |-> "xireg", level |-> "VS",
           w |-> [reg |-> "iprio", idx |-> 1, val |-> <<0, p, 0, 0>>]] : p \in {1, 3}}

MCHwEvents == {<<"timer", l, b>> : l \in Levels, b \in BOOLEAN}

MCMsiWrites == {<<p, 1>> : p \in {0, 1, 2}}

\* Dispatch run: software returns from handlers (mret may enter VU mode),
\* pops the threshold stacks through xtopei, the hypervisor masks and
\* unmasks the guest external interrupt (hgeie), while MSIs of a vectored
\* identity (1) arrive on every page, of a tail identity (3) on the M page.
\* Dispatch boot: M and VS nested-vectored, S in vectored mode, so the S
\* external interrupt and the guest external interrupt compete at S.
MCBootDispatch ==
    MCBootBase \o <<Xtvec("M", SnpsNestedVectored), Xtvec("S", 1), Xtvec("VS", SnpsNestedVectored)>>

MCOpsDispatch ==
    {Xret(l) : l \in Levels} \cup {Xtopei(l, 0, TRUE) : l \in Levels}
    \cup {[kind |-> "pp", level |-> "M", val |-> "VU"]}
    \cup {[kind |-> "hgeie", val |-> e] : e \in {{}, {1}}}

MCNoHwEvents == {}

MCMsiDispatch == {<<0, 1>>, <<0, 3>>, <<1, 1>>, <<2, 1>>}

\* Boot of a system whose M level takes the S external interrupt itself
\* (mideleg.SEI clear), every level nested-vectored.
MCBootSeiAtM ==
    SelectSeq(MCBootBase, LAMBDA op : op # Clint("mideleg", SEI, TRUE))
    \o [i \in 1 .. 3 |-> Xtvec(<<"M", "S", "VS">>[i], SnpsNestedVectored)]

MCOpsNop == {[kind |-> "nop"]}

\* An MSI to the S file.
MCMsiS == {<<1, 1>>}

\* The S timer line.
MCHwSTimer == {<<"timer", "S", TRUE>>}

MCNoMsi == {}

\* A hypervisor injects a VS external interrupt through hvip and enters
\* the guest (mpp <- VU, mret).
MCOpsHvipInject ==
    {Clint("hvip", VSEI, TRUE), [kind |-> "pp", level |-> "M", val |-> "VU"], Xret("M"),
     [kind |-> "nop"]}

\* Boot in direct mode with the M file's threshold at 2; software then
\* switches mtvec to nested-vectored mode while identity 3 is pending.
MCBootThreshold == MCBootBase \o <<Ireg("M", "eithreshold", 2, TRUE)>>

MCOpsModeSwitch == {Xtvec("M", SnpsNestedVectored)}

MCMsiM3 == {<<0, 3>>}

\* A hypervisor injects the VS timer interrupt through hvictl (VTI = 1,
\* IID = the S-place STI) and withdraws it.
MCOpsHvictl ==
    {[kind |-> "hvictl", val |-> [vti |-> v, iid |-> STI, iprio |-> 0]] : v \in BOOLEAN}

\* The fingerprint of a state without xtopi and xcause.  No guard and no
\* other register reads them, and every interrupt check rewrites xtopi of
\* every level and xcause of the trapped level from the other registers,
\* so states that differ only there have the same futures; the properties
\* of the runs that use this view read them only in the step that writes
\* them.
MCView == <<[h EXCEPT !.topi = [l \in Levels |-> NoTopi], !.cause = [l \in Levels |-> 0]],
            cpu, phase, boot>>
=============================================================================
