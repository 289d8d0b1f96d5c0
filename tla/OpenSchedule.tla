----------------------------- MODULE OpenSchedule -----------------------------
(***************************************************************************)
(* OpenWorkload.GenerateSchedule (pkg/scenario/open.go): a goroutine that  *)
(* turns the levels of a scenario into the offsets at which requests are   *)
(* due and sends them, one by one, on an unbuffered channel.               *)
(*                                                                         *)
(* Times are whole ticks, Second ticks to a second, as the Go code has     *)
(* whole nanoseconds; levels are whole requests per second.  The float64   *)
(* formula                                                                 *)
(*     k = (end - start) / dur,  rate = k * sqrt(2 * cnt / k)              *)
(* gives 1 / rate = sqrt(dur / (2 * cnt * (end - start))) seconds, which   *)
(* Interval computes exactly, rounded down as the conversion to Duration   *)
(* rounds it.                                                              *)
(***************************************************************************)
EXTENDS Scenario

CONSTANTS
    Second,     \* ticks in a second
    CountBound  \* bound of the model on the entries of one schedule

ASSUME ScheduleAssumption ==
    /\ Second \in Nat \ {0}
    /\ CountBound \in Nat

VARIABLE
    gen        \* the locals of the goroutine; see GenTypeOK

schedVars == <<scenario, gen>>

(* The integer square root: there are exactly that many squares up to n.   *)
(* The comparison is r * r <= n without its large product.                 *)
Isqrt(n) == Cardinality({r \in 1 .. n : r <= n \div r})

(* Mutants: a falling level has a rate, which is negative; and the factor  *)
(* 2 of the ramp is missing.                                               *)
Interval_NegativeRate(level, cnt) ==
    IF level.start = level.end
    THEN IF level.end = 0 THEN 0 ELSE Second \div level.end
    ELSE IF level.start > level.end THEN Second \div (level.end - level.start)
    ELSE IF cnt = 0 THEN 0
    ELSE Isqrt((Second * level.dur) \div (2 * cnt * (level.end - level.start)))

Interval_NoFactor(level, cnt) ==
    IF level.start = level.end
    THEN IF level.end = 0 THEN 0 ELSE Second \div level.end
    ELSE IF level.start > level.end \/ cnt = 0 THEN 0
    ELSE Isqrt((Second * level.dur) \div (cnt * (level.end - level.start)))

(* The time from one entry to the next.  The rate comes out as zero, or as *)
(* NaN, which is not above zero either, on a flat level of zero, on the    *)
(* first entry of a ramp and all along a falling one.                      *)
Interval(level, cnt) ==
    IF level.start = level.end
    THEN IF level.end = 0 THEN 0 ELSE Second \div level.end
    ELSE IF level.start > level.end \/ cnt = 0 THEN 0
    ELSE Isqrt((Second * level.dur) \div (2 * cnt * (level.end - level.start)))

Level == scenario[gen.curStep]

(* curStep counts from 1 here.                                             *)
ScheduleInit ==
    /\ scenario \in Scenarios
    /\ gen = [pc |-> "compute", curStep |-> 1, cnt |-> 0, accum |-> 0, finishedSteps |-> 0]

(* Mutant: the first entry of a ramp counts as stuck too.                  *)
StuckAt_First(g, i) == i = 0

(* The loop body up to the send; a zero interval after the first entry is  *)
(* the panic "schedule calculations stuck".                                *)
StuckAt(g, i) == g.accum # 0 /\ i = 0

GenerateOffset ==
    /\ gen.pc = "compute" /\ gen.curStep <= Len(scenario)
    /\ gen.cnt < CountBound
    /\ LET i == Interval(Level, gen.cnt)
       IN  gen' = IF StuckAt(gen, i) THEN [gen EXCEPT !.pc = "stuck"]
                  ELSE [gen EXCEPT !.pc = "send", !.accum = @ + i]
    /\ UNCHANGED scenario

(* Mutant: the channel is not closed.                                      *)
GeneratorEnds_NoClose ==
    /\ gen.pc = "compute" /\ gen.curStep > Len(scenario)
    /\ UNCHANGED schedVars

GeneratorEnds ==
    /\ gen.pc = "compute" /\ gen.curStep > Len(scenario)
    /\ gen' = [gen EXCEPT !.pc = "closed"]
    /\ UNCHANGED scenario

(* Mutants: the end of a step is looked for from the start of the test;    *)
(* and the offsets of a step are counted from its beginning.               *)
SendOffset_FromZero ==
    /\ gen.pc = "send"
    /\ gen' = IF gen.accum > Level.dur
              THEN [gen EXCEPT !.pc = "compute", !.cnt = @ + 1,
                               !.curStep = @ + 1, !.finishedSteps = gen.accum]
              ELSE [gen EXCEPT !.pc = "compute", !.cnt = @ + 1]
    /\ UNCHANGED scenario

SendOffset_Restart ==
    /\ gen.pc = "send"
    /\ gen' = IF gen.accum > Level.dur
              THEN [gen EXCEPT !.pc = "compute", !.cnt = @ + 1,
                               !.curStep = @ + 1, !.accum = 0]
              ELSE [gen EXCEPT !.pc = "compute", !.cnt = @ + 1]
    /\ UNCHANGED scenario

(* The send of accum, taken together with its receive by Run, and the rest *)
(* of the loop body: the step is over once an entry lies beyond its end.   *)
SendOffset ==
    /\ gen.pc = "send"
    /\ gen' = IF gen.accum > gen.finishedSteps + Level.dur
              THEN [gen EXCEPT !.pc = "compute", !.cnt = @ + 1,
                               !.curStep = @ + 1, !.finishedSteps = gen.accum]
              ELSE [gen EXCEPT !.pc = "compute", !.cnt = @ + 1]
    /\ UNCHANGED scenario

GeneratorDone ==
    /\ gen.pc \in {"closed", "stuck"} \/ (gen.pc = "compute" /\ gen.cnt >= CountBound)
    /\ UNCHANGED schedVars

(* The generator alone, with a receiver that is always ready.              *)
ScheduleNext == GenerateOffset \/ GeneratorEnds \/ SendOffset \/ GeneratorDone

ScheduleSpec == ScheduleInit /\ [][ScheduleNext]_schedVars /\ WF_schedVars(ScheduleNext)

-----------------------------------------------------------------------------
GenTypeOK ==
    /\ scenario \in Scenarios
    /\ gen \in [pc : {"compute", "send", "stuck", "closed"},
                curStep : Nat \ {0}, cnt : Nat, accum : Nat, finishedSteps : Nat]

HasRate(level) == level.start < level.end \/ (level.start = level.end /\ level.end > 0)

(* No level is cut short: the time at which the generator leaves a level   *)
(* is past the end of all the levels up to it, and by no more than one     *)
(* interval for each of them, although finishedSteps restarts every level  *)
(* from an entry and not from the end of the level before.                 *)
LongestInterval(level) == Interval(level, 1)

LevelsInFull ==
    LET over == SubSeq(scenario, 1, gen.curStep - 1)
        slack == FoldLeft(LAMBDA sum, level : sum + LongestInterval(level), 0, over)
    IN  gen.curStep > 1 =>
            /\ gen.finishedSteps > DurationOf(over)
            /\ gen.finishedSteps <= DurationOf(over) + slack

(* On a single ramp from zero the number of entries follows the area below *)
(* the ramp, end * t^2 / (2 * dur), which is the load a linear growth asks *)
(* for: never behind, and after n entries at most sqrt(3 * n) + 1 ahead. *)
RampFollowsLoad ==
    LET level == scenario[1]
        t == gen.accum
        n == gen.cnt
        area == (level.end * t * t) \div (2 * level.dur * Second)
    IN  Len(scenario) = 1 /\ level.start = 0 /\ level.end > 0 /\ gen.pc = "compute" /\ n > 0
            => area < n /\ (n - area - 1) * (n - area - 1) <= 3 * n

(* The panic "schedule calculations stuck", and a flood of entries without *)
(* any time between them, need a level without a rate: zero, or falling.   *)
Flood == gen.pc = "compute" /\ gen.cnt > 1 /\ gen.accum = 0
StuckOnlyWithoutRate == gen.pc = "stuck" \/ Flood => ~HasRate(Level)

-----------------------------------------------------------------------------
(* A claim of the documentation that the code does not keep.               *)

(* levelstart is the starting level of a chunk and levelend the ending     *)
(* one: on a rising level the rate stays between them, up to the rounding  *)
(* of an interval to a tick.                                               *)
RateWithinLevel ==
    gen.pc = "compute" /\ gen.curStep <= Len(scenario) =>
        LET i == Interval(Level, gen.cnt) IN
        0 < Level.start /\ Level.start < Level.end /\ gen.cnt > 0 =>
            Second \div Level.end <= i + 1 /\ i <= Second \div Level.start
=============================================================================
