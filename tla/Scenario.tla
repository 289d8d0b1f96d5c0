------------------------------- MODULE Scenario -------------------------------
(***************************************************************************)
(* The scenario of a test: a sequence of levels.                           *)
(***************************************************************************)
EXTENDS WorkloadLevel

CONSTANT Scenarios  \* the scenarios to run

ASSUME ScenarioAssumption == Scenarios \subseteq Seq(Levels)

VARIABLE scenario   \* BaseWorkload.Scenario
=============================================================================
