----------------------------- MODULE MCSchedules -----------------------------
(* Loads and scenarios for the two generators.                             *)
EXTENDS TaurusSchedules

L(start, end, dur) == [start |-> start, end |-> end, dur |-> dur]

Load(throughput, concurrency, rampUp, steps, hold) ==
    [throughput |-> throughput, concurrency |-> concurrency,
     rampUp |-> rampUp, steps |-> steps, hold |-> hold]

(* The first is the scenario of TestOpenGenerator                          *)
(* (pkg/scenario/open_test.go).                                            *)
OpenLoads ==
    { Load(10, 0, 5000, 0, 2000), Load(3, 0, 9000, 0, 0), Load(50, 0, 2000, 0, 0),
      Load(10, 0, 4000, 4, 1000), Load(25, 0, 0, 0, 2000), Load(8, 0, 3000, 3, 0),
      Load(4, 0, 5000, 10, 1000),    \* the first step is rounded to zero: a flood
      Load(10, 0, 0, 0, 0) }         \* only iterations: no levels

ClosedLoads ==
    [throughput : {0}, concurrency : 1 .. 4, rampUp : {0, 40, 50},
     steps : {0, 1, 3, 4}, hold : {0, 30}]

MCOpenScenarios ==
    { <<L(10, 10, 1000), L(4, 4, 3000), L(20, 20, 1000)>>,
      <<L(1, 1, 500), L(1, 1, 500), L(1, 1, 500)>>,
      <<L(5, 10, 2000), L(10, 20, 2000)>>,
      <<L(10, 5, 1000)>>,                     \* falls: a flood of entries at 0
      <<L(0, 0, 1000), L(5, 5, 1000)>>,       \* starts at rate zero: the same
      <<L(5, 5, 1000), L(0, 0, 1000)>>,       \* panics
      <<L(5, 5, 1000), L(5, 1, 1000)>> }      \* panics

StartLevels == { <<L(10, 20, 5000)>> }

(* All scenarios of one or two short levels, in halves of a worker, and    *)
(* the one of TestClosedGenerator (pkg/scenario/closed_test.go).           *)
Short == {L(s, e, d) : s \in {0, 1, 2, 4}, e \in {0, 1, 2, 4}, d \in {0, 3}}
MCClosedScenarios ==
    {<<a>> : a \in Short} \cup {<<a, b>> : a, b \in Short}
    \cup { <<L(0, 20, 50), L(20, 30, 20), L(30, 30, 50)>> }

MCLoads == OpenLoads \cup ClosedLoads
AllScenarios == {ScenarioOf(l) : l \in MCLoads} \cup MCOpenScenarios \cup MCClosedScenarios
=============================================================================
