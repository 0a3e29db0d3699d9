---------------------------- MODULE ThresholdStack ----------------------------
(***************************************************************************)
(* Abstract specification of the NV-mode interrupt threshold (spec.md      *)
(* 4.4 and 4.7): a LIFO stack of preemption thresholds.  Taking an         *)
(* interrupt whose vector line is below the current threshold pushes that  *)
(* line; handling it pops, which restores exactly the threshold that was   *)
(* in force when the interrupt was taken.  An empty stack falls back to    *)
(* the floor ("tail") value, 0 meaning "nothing blocked".                  *)
(***************************************************************************)
EXTENDS Naturals, Sequences

CONSTANTS Lines, Floors

VARIABLES stack, floor

Threshold == IF stack = <<>> THEN floor ELSE Head(stack)

\* A vector line preempts when no threshold is set or it is strictly lower.
Preempts(l) == Threshold = 0 \/ l < Threshold

Init == stack = <<>> /\ floor = 0

Enter(l) == Preempts(l) /\ stack' = <<l>> \o stack /\ UNCHANGED floor

Leave ==
    /\ stack' = IF stack = <<>> THEN stack ELSE Tail(stack)
    /\ UNCHANGED floor

SetFloor(f) == floor' = f /\ UNCHANGED stack

Next == (\E l \in Lines : Enter(l)) \/ Leave \/ (\E f \in Floors : SetFloor(f))

Spec == Init /\ [][Next]_<<stack, floor>>
=============================================================================
