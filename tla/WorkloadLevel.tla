----------------------------- MODULE WorkloadLevel -----------------------------
(***************************************************************************)
(* A level of the scenario of a test (WorkloadLevel, pkg/core/workload.go):*)
(* the value at its start and at its end - requests per second for an open *)
(* workload, workers for a closed one - and its duration in ticks.         *)
(***************************************************************************)
EXTENDS Integers, Sequences, SequencesExt, FiniteSets

Levels == [start : Nat, end : Nat, dur : Nat]

DurationOf(levels) == FoldLeft(LAMBDA sum, level : sum + level.dur, 0, levels)
=============================================================================
