---------------------------- MODULE TaurusSchedules ----------------------------
(***************************************************************************)
(* The two generators alone, each with a receiver that is always ready, on *)
(* scenarios of its own: those that the Taurus module makes of a load, and *)
(* others.                                                                 *)
(***************************************************************************)
EXTENDS OpenSchedule, ClosedSchedule, TaurusLoad

CONSTANTS
    AskedLoads,       \* loads that Taurus is asked for
    OpenScenarios,    \* scenarios of no such load
    ClosedScenarios

ASSUME TaurusAssumption == AskedLoads \subseteq Loads

VARIABLES
    mode,   \* WorkerConf.Mode
    load    \* the load that the scenario was made of, or NoLoad

NoLoad == [throughput |-> 0, concurrency |-> 0, rampUp |-> 0, steps |-> 0, hold |-> 0]

(* Workers are counted in LevelUnit-ths.                                   *)
InUnits(levels) ==
    [k \in DOMAIN levels |->
        [start |-> LevelUnit * levels[k].start, end |-> LevelUnit * levels[k].end,
         dur |-> levels[k].dur]]

ScenarioOf(l) == IF ModeOf(l) = "open" THEN TranslateLoad(l) ELSE InUnits(TranslateLoad(l))

vars == <<mode, load, schedVars, closedSchedVars>>

(* NewWorkload picks the generator by the mode.                            *)
Init ==
    /\ ScheduleInit /\ ClosedScheduleInit
    /\ \/ /\ load = NoLoad
          /\ \/ mode = "open" /\ scenario \in OpenScenarios
             \/ mode = "closed" /\ scenario \in ClosedScenarios
       \/ /\ load \in AskedLoads
          /\ mode = ModeOf(load) /\ scenario = ScenarioOf(load)

Next ==
    \/ mode = "open" /\ ScheduleNext /\ UNCHANGED <<mode, load, sent>>
    \/ mode = "closed" /\ ClosedScheduleNext /\ UNCHANGED <<mode, load, gen>>

Spec == Init /\ [][Next]_vars

-----------------------------------------------------------------------------
(* The schedule delivers the load that Taurus was asked for, in throughput *)
(* times time: by the end there are no fewer entries than asked for, and   *)
(* those that are too many come from the ends of levels, at most one each, *)
(* and from the formula of the ramp.  A step that is rounded to rate zero  *)
(* is a flood and never ends.                                              *)
EntriesAsked(l) ==
    (l.throughput * ((IF l.steps = 0 THEN l.rampUp ELSE l.rampUp + l.rampUp \div l.steps) + 2 * l.hold))
        \div (2 * Second)

LoadDelivered ==
    load # NoLoad /\ gen.pc = "closed" =>
        /\ EntriesAsked(load) <= gen.cnt
        /\ gen.cnt <= EntriesAsked(load) + Len(scenario) + Isqrt(3 * gen.cnt)

(* A load with a ramp-up or a hold-for starts as many workers as asked for *)
(* and the last one by the end of the ramp-up, up to half a millisecond in *)
(* every step.                                                             *)
ConcurrencyReached ==
    mode = "closed" /\ load # NoLoad /\ load.rampUp + load.hold > 0 /\ AllSent =>
        /\ sent = load.concurrency
        /\ \A k \in DOMAIN Offsets : 2 * Offsets[k] <= 2 * load.rampUp + load.steps
=============================================================================
