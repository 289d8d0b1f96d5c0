---------------------------- MODULE MCOpenWorkload ----------------------------
(* Instances of the open workload, with scenarios of a few entries.        *)
EXTENDS OpenWorkload

L(start, end, dur) == [start |-> start, end |-> end, dur |-> dur]

(* At 4 ticks to a second: entries due at 0, 2, 3 and 4; and, in two       *)
(* levels, at 2 and 3.                                                     *)
Ramp == <<L(0, 1, 3)>>
Steps == <<L(2, 2, 1), L(4, 4, 0)>>

FlatOnly == {<<L(1, 1, 1)>>}
ThreeOnly == {<<L(1, 1, 2)>>}
RampOrSteps == {Ramp, Steps}
=============================================================================
