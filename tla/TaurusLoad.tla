------------------------------ MODULE TaurusLoad ------------------------------
(***************************************************************************)
(* EncarnoFilesGenerator (taurus/encarno/__init__.py): how the load that a *)
(* user of Taurus asks for becomes a mode and a scenario.  Durations are   *)
(* in milliseconds, which is what their format "%.3fs" keeps; an option    *)
(* that is not given is 0.                                                 *)
(***************************************************************************)
EXTENDS Scenario

Loads == [throughput : Nat, concurrency : Nat, rampUp : Nat, steps : Nat, hold : Nat]

(* round() of n / d, and the format of a float: to the nearest, or to the  *)
(* even one of two.                                                        *)
Rounded(n, d) ==
    LET q == n \div d
        r == n % d
    IN  IF 2 * r < d \/ (2 * r = d /\ q % 2 = 0) THEN q ELSE q + 1

ModeOf(load) == IF load.throughput > 0 THEN "open" ELSE "closed"
LevelOf(load) == IF load.throughput > 0 THEN load.throughput ELSE load.concurrency

Flat(level, dur) == [start |-> level, end |-> level, dur |-> dur]

(* Mutant: the steps start at zero.                                        *)
StepLevel_FromZero(load, step) == Rounded(LevelOf(load) * (step - 1), load.steps)

StepLevel(load, step) == Rounded(LevelOf(load) * step, load.steps)

RampLevels(load) ==
    IF load.rampUp = 0 THEN << >>
    ELSE IF load.steps = 0
    THEN << [start |-> 0, end |-> LevelOf(load), dur |-> load.rampUp] >>
    ELSE [step \in 1 .. load.steps |->
             Flat(StepLevel(load, step), Rounded(load.rampUp, load.steps))]

(* Mutant: without a ramp there is nothing to hold.                        *)
HoldLevels_AfterRamp(load) ==
    IF load.hold = 0 \/ load.rampUp = 0 THEN << >>
    ELSE << Flat(LevelOf(load), load.hold) >>

HoldLevels(load) ==
    IF load.hold = 0 THEN << >> ELSE << Flat(LevelOf(load), load.hold) >>

TranslateLoad(load) == RampLevels(load) \o HoldLevels(load)
=============================================================================
