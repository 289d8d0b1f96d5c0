--------------------------- MODULE MCClosedWorkload ---------------------------
(* A closed workload of two workers.                                       *)
EXTENDS ClosedWorkload

L(start, end, dur) == [start |-> start, end |-> end, dur |-> dur]

(* Workers at 1 and 2, which count as 0 and 1; and one at 0, one at 2.     *)
MCScenarios == {<<L(0, 2, 2)>>, <<L(1, 1, 2), L(2, 2, 0)>>}
=============================================================================
