---------------------------- MODULE ClosedSchedule ----------------------------
(***************************************************************************)
(* ClosedWorkload.GenerateSchedule (pkg/scenario/closed.go): the offsets   *)
(* at which workers are to be started.  The generator has no effect but    *)
(* its sends, so the offsets it will send are one sequence.                *)
(*                                                                         *)
(* The code has levels in float64; here a level is a whole number of       *)
(* LevelUnit-ths of a worker.                                              *)
(***************************************************************************)
EXTENDS Scenario

CONSTANT LevelUnit   \* what a level counts as one worker

ASSUME ClosedScheduleAssumption == LevelUnit \in Nat \ {0}

VARIABLE sent        \* offsets the generator has sent

closedSchedVars == <<scenario, sent>>

(* Mutant: i <= start.                                                     *)
Jump_OneMore(curLevel, level) ==
    IF curLevel <= level.start
    THEN (level.start - curLevel) \div LevelUnit + 1
    ELSE 0

(* for i := curLevel; i < start; i++, the workers that start at once       *)
Jump(curLevel, level) ==
    IF curLevel < level.start
    THEN (level.start - curLevel + LevelUnit - 1) \div LevelUnit
    ELSE 0

(* for i := 1.0; i <= end - start; i++, those that start one by one        *)
Climb(level) ==
    IF level.start < level.end THEN (level.end - level.start) \div LevelUnit ELSE 0

ClimbOffset(level, i) == (level.dur * i * LevelUnit) \div (level.end - level.start)

(* One level of the scenario; g holds the locals of the goroutine and what *)
(* it has sent.  A falling level sends nothing, but lowers curLevel.       *)
AfterLevel(g, level) ==
    [curLevel  |-> level.end,
     curOffset |-> g.curOffset + level.dur,
     offsets   |-> g.offsets
                   \o [i \in 1 .. Jump(g.curLevel, level) |-> g.curOffset]
                   \o [i \in 1 .. Climb(level) |-> g.curOffset + ClimbOffset(level, i)]]

ClosedOffsets(levels) ==
    FoldLeft(AfterLevel, [curLevel |-> 0, curOffset |-> 0, offsets |-> << >>], levels).offsets

Offsets == ClosedOffsets(scenario)

ClosedScheduleInit ==
    /\ scenario \in Scenarios
    /\ sent = 0

SendStart ==
    /\ sent < Len(Offsets)
    /\ sent' = sent + 1
    /\ UNCHANGED scenario

AllSent == sent = Len(Offsets)

(* The generator alone, with a receiver that is always ready.              *)
ClosedScheduleNext == SendStart \/ (AllSent /\ UNCHANGED closedSchedVars)
ClosedScheduleSpec == ClosedScheduleInit /\ [][ClosedScheduleNext]_closedSchedVars

-----------------------------------------------------------------------------
ClosedScheduleTypeOK ==
    /\ scenario \in Scenarios
    /\ Offsets \in Seq(Nat)
    /\ sent \in 0 .. Len(Offsets)

(* The number of workers the scenario asks for, from its definition: the   *)
(* value of level k after t ticks of it, in whole workers.                 *)
Asked(level, t) ==
    (IF level.dur = 0 THEN level.end
     ELSE level.start + ((level.end - level.start) * t) \div level.dur) \div LevelUnit

StartOf(k) == DurationOf(SubSeq(scenario, 1, k - 1))
Started(t) == Cardinality({i \in 1 .. sent : Offsets[i] <= t})

(* Scenarios the generator supports: they never fall, not between levels   *)
(* either, and every level starts and ends with whole workers.             *)
Supported ==
    /\ \A k \in DOMAIN scenario :
           /\ scenario[k].start <= scenario[k].end
           /\ scenario[k].start % LevelUnit = 0 /\ scenario[k].end % LevelUnit = 0
    /\ \A k \in 2 .. Len(scenario) : scenario[k-1].end <= scenario[k].start

(* On a supported scenario the workers started by any time are as many as  *)
(* the scenario asks for, up to the rounding of an offset to a tick.       *)
StartsFollowLevels ==
    AllSent /\ Supported =>
        \A k \in DOMAIN scenario : \A t \in 0 .. scenario[k].dur - 1 :
            /\ Asked(scenario[k], t) <= Started(StartOf(k) + t)
            /\ Started(StartOf(k) + t) <= Asked(scenario[k], t + 1)
=============================================================================
