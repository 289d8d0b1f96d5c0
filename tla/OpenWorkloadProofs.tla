-------------------------- MODULE OpenWorkloadProofs --------------------------
(***************************************************************************)
(* Proofs about the open workload, for every scenario: the generator       *)
(* leaves no level too early or too late; the steps of the workload are    *)
(* steps of WorkerPool as far as the pool is concerned, so that the        *)
(* theorems of WorkerPoolProofs hold of it; the limit on the number of     *)
(* workers is kept; and no entry is hit twice or lost before the end.      *)
(***************************************************************************)
EXTENDS OpenWorkload, WorkerPoolProofs, FoldProofs

-----------------------------------------------------------------------------
(* The generator, alone and in the workload: its locals keep their types,  *)
(* its time only grows, and no level is cut short or drawn out.            *)

(* Isqrt counts a finite set.                                              *)
LEMMA IsqrtType == ASSUME NEW n \in Nat PROVE Isqrt(n) \in Nat
<1>1. IsFiniteSet(1 .. n)
  BY FS_Interval
<1>2. {r \in 1 .. n : r <= n \div r} \subseteq 1 .. n
  OBVIOUS
<1> QED
  BY <1>1, <1>2, FS_Subset, FS_CardinalityType DEF Isqrt

(* The interval to the next entry is a natural number of ticks.            *)
LEMMA IntervalType ==
    ASSUME NEW level \in Levels, NEW cnt \in Nat
    PROVE  Interval(level, cnt) \in Nat
<1>1. level.start \in Nat /\ level.end \in Nat /\ level.dur \in Nat /\ Second \in Nat \ {0}
  BY ScheduleAssumption DEF Levels
<1>2. CASE level.start < level.end /\ cnt # 0
  <2> DEFINE n == Second * level.dur
             d == 2 * cnt * (level.end - level.start)
  <2>1. n \in Nat
    BY <1>1
  <2>2. d \in Nat /\ d > 0
    BY <1>1, <1>2
  <2>3. n \div d \in Nat
    BY <2>1, <2>2
  <2> QED
    BY <1>1, <1>2, <2>3, IsqrtType DEF Interval
<1>3. CASE level.start = level.end
  BY <1>1, <1>3 DEF Interval
<1> QED
  BY <1>1, <1>2, <1>3 DEF Interval

(* Every step keeps the types of the generator.                            *)
LEMMA GeneratorType ==
    ASSUME GenTypeOK, GenerateOffset \/ GeneratorEnds \/ SendOffset \/ UNCHANGED schedVars
    PROVE  GenTypeOK'
<1>1. CASE GenerateOffset
  <2>1. /\ scenario \in Seq(Levels)
        /\ gen.curStep \in 1 .. Len(scenario)
        /\ gen.cnt \in Nat
    BY <1>1, ScenarioAssumption DEF GenerateOffset, GenTypeOK
  <2>2. Level \in Levels
    BY <2>1 DEF Level
  <2>3. Interval(Level, gen.cnt) \in Nat
    BY <2>1, <2>2, IntervalType
  <2>4. \/ gen' = [gen EXCEPT !.pc = "stuck"]
        \/ gen' = [gen EXCEPT !.pc = "send", !.accum = @ + Interval(Level, gen.cnt)]
    BY <1>1 DEF GenerateOffset
  <2>5. gen.accum + Interval(Level, gen.cnt) \in Nat
    BY <2>3 DEF GenTypeOK
  <2> HIDE DEF Interval, Level
  <2>6. UNCHANGED scenario
    BY <1>1 DEF GenerateOffset
  <2> QED
    BY <2>4, <2>5, <2>6 DEF GenTypeOK
<1>2. CASE GeneratorEnds
  BY <1>2 DEF GeneratorEnds, GenTypeOK
<1>3. CASE SendOffset
  <2>1. \/ gen' = [gen EXCEPT !.pc = "compute", !.cnt = @ + 1]
        \/ gen' = [gen EXCEPT !.pc = "compute", !.cnt = @ + 1,
                              !.curStep = @ + 1, !.finishedSteps = gen.accum]
    BY <1>3 DEF SendOffset
  <2>2. UNCHANGED scenario
    BY <1>3 DEF SendOffset
  <2>3. /\ gen.cnt + 1 \in Nat
        /\ gen.curStep + 1 \in Nat \ {0}
        /\ gen.accum \in Nat
    BY DEF GenTypeOK
  <2>4. CASE gen' = [gen EXCEPT !.pc = "compute", !.cnt = @ + 1]
    BY <2>2, <2>3, <2>4 DEF GenTypeOK
  <2>5. CASE gen' = [gen EXCEPT !.pc = "compute", !.cnt = @ + 1,
                               !.curStep = @ + 1, !.finishedSteps = gen.accum]
    BY <2>2, <2>3, <2>5 DEF GenTypeOK
  <2> QED
    BY <2>1, <2>4, <2>5
<1>4. CASE UNCHANGED schedVars
  BY <1>4 DEF schedVars, GenTypeOK
<1> QED
  BY <1>1, <1>2, <1>3, <1>4

(* With any receiver that is always ready, the locals of the generator     *)
(* keep their types for every scenario: no interval is negative, whatever  *)
(* the levels and the count.                                               *)
THEOREM ScheduleTypeCorrect == ScheduleSpec => []GenTypeOK
<1>1. ScheduleInit => GenTypeOK
  BY DEF ScheduleInit, GenTypeOK
<1>2. GenTypeOK /\ [ScheduleNext]_schedVars => GenTypeOK'
  BY GeneratorType DEF ScheduleNext, GeneratorDone
<1> QED
  BY <1>1, <1>2, PTL DEF ScheduleSpec

(* The time of the generator only grows, and is what Run is sent.          *)
LEMMA GeneratorGrows ==
    ASSUME GenTypeOK, GenerateOffset \/ GeneratorEnds \/ SendOffset \/ UNCHANGED schedVars
    PROVE  gen.accum <= gen'.accum
<1>0. gen.accum \in Nat /\ gen.accum <= gen.accum
  BY DEF GenTypeOK
<1>1. CASE GenerateOffset
  <2>1. /\ scenario \in Seq(Levels) /\ gen.curStep \in 1 .. Len(scenario)
        /\ gen.cnt \in Nat /\ gen.accum \in Nat
        /\ gen \in [pc : {"compute", "send", "stuck", "closed"},
                    curStep : Nat \ {0}, cnt : Nat, accum : Nat, finishedSteps : Nat]
    BY <1>1, ScenarioAssumption DEF GenerateOffset, GenTypeOK
  <2>2. Level \in Levels
    BY <2>1 DEF Level
  <2> DEFINE i == Interval(Level, gen.cnt)
  <2>3. i \in Nat
    BY <2>1, <2>2, IntervalType
  <2>4. \/ gen' = [gen EXCEPT !.pc = "stuck"]
        \/ gen' = [gen EXCEPT !.pc = "send", !.accum = @ + i]
    BY <1>1 DEF GenerateOffset
  <2> HIDE DEF i
  <2>5. CASE gen' = [gen EXCEPT !.pc = "stuck"]
    <3>1. gen'.accum = gen.accum
      BY <2>1, <2>5
    <3> QED
      BY <1>0, <3>1
  <2>6. CASE gen' = [gen EXCEPT !.pc = "send", !.accum = @ + i]
    <3>1. gen'.accum = gen.accum + i
      BY <2>1, <2>6
    <3> QED
      BY <1>0, <2>3, <3>1
  <2> QED
    BY <2>4, <2>5, <2>6
<1>2. CASE GeneratorEnds \/ SendOffset \/ UNCHANGED schedVars
  <2>1. \/ gen' = gen
        \/ gen' = [gen EXCEPT !.pc = "closed"]
        \/ gen' = [gen EXCEPT !.pc = "compute", !.cnt = @ + 1]
        \/ gen' = [gen EXCEPT !.pc = "compute", !.cnt = @ + 1,
                              !.curStep = @ + 1, !.finishedSteps = gen.accum]
    BY <1>2 DEF GeneratorEnds, SendOffset, schedVars
  <2>2. gen \in [pc : {"compute", "send", "stuck", "closed"},
                 curStep : Nat \ {0}, cnt : Nat, accum : Nat, finishedSteps : Nat]
    BY DEF GenTypeOK
  <2>3. gen'.accum = gen.accum
    BY <2>1, <2>2
  <2> QED
    BY <1>0, <2>3
<1> QED
  BY <1>1, <1>2

-----------------------------------------------------------------------------
(* The levels in full                                                      *)

(* A division grows with its numerator and shrinks with its divisor.       *)
LEMMA DivGrows ==
    ASSUME NEW m \in Nat, NEW n \in Nat, m <= n, NEW r \in Nat \ {0}
    PROVE  m \div r <= n \div r
OBVIOUS

(* A quotient falls as the divisor grows.                                  *)
LEMMA DivShrinks ==
    ASSUME NEW n \in Nat, NEW b \in Nat \ {0}, NEW c \in Nat \ {0}, c <= b
    PROVE  n \div b <= n \div c
<1> DEFINE q == n \div b
<1>1. q \in Nat /\ q * b <= n
  OBVIOUS
<1>2. q * c <= q * b
  <2> HIDE DEF q
  <2> QED
    BY <1>1
<1>3. q * c <= n
  <2> HIDE DEF q
  <2> QED
    BY <1>1, <1>2
<1>4. n \div c \in Nat /\ n < c * (n \div c) + c
  OBVIOUS
<1> DEFINE p == n \div c
<1>5. q <= p
  <2> HIDE DEF q, p
  <2> SUFFICES ASSUME q >= p + 1 PROVE FALSE
    BY <1>1, <1>4 DEF p
  <2>1. p \in Nat /\ n < c * p + c
    BY <1>4 DEF p
  <2>2. c * (p + 1) <= c * q
    BY <1>1, <2>1
  <2>3. c * (p + 1) = c * p + c /\ c * q = q * c
    BY <1>1, <2>1
  <2> QED
    BY <1>1, <1>3, <2>1, <2>2, <2>3
<1> QED
  BY <1>5

(* A smaller number has no greater root.                                   *)
LEMMA IsqrtGrows ==
    ASSUME NEW m \in Nat, NEW n \in Nat, m <= n
    PROVE  Isqrt(m) <= Isqrt(n)
<1>1. {r \in 1 .. m : r <= m \div r} \subseteq {r \in 1 .. n : r <= n \div r}
  <2> SUFFICES ASSUME NEW r \in 1 .. m, r <= m \div r PROVE r \in 1 .. n /\ r <= n \div r
    OBVIOUS
  <2>1. r \in Nat \ {0} /\ r \in 1 .. n
    OBVIOUS
  <2>2. m \div r <= n \div r /\ m \div r \in Int /\ n \div r \in Int
    BY <2>1, DivGrows
  <2> QED
    BY <2>1, <2>2
<1>2. IsFiniteSet({r \in 1 .. n : r <= n \div r})
  <2>1. IsFiniteSet(1 .. n) /\ {r \in 1 .. n : r <= n \div r} \subseteq 1 .. n
    BY FS_Interval
  <2> QED
    BY <2>1, FS_Subset
<1> QED
  BY <1>1, <1>2, FS_Subset DEF Isqrt

(* The second entry of a level is preceded by its longest interval: on a   *)
(* ramp the intervals only get shorter.                                    *)
LEMMA IntervalAtMost ==
    ASSUME NEW level \in Levels, NEW cnt \in Nat
    PROVE  Interval(level, cnt) <= LongestInterval(level)
<1>1. level.start \in Nat /\ level.end \in Nat /\ level.dur \in Nat /\ Second \in Nat \ {0}
  BY ScheduleAssumption DEF Levels
<1>2. LongestInterval(level) \in Nat
  BY IntervalType DEF LongestInterval
<1>3. CASE level.start < level.end /\ cnt # 0
  <2> DEFINE n == Second * level.dur
             d == level.end - level.start
             b == 2 * cnt * d
             c == 2 * 1 * d
  <2>1. n \in Nat
    BY <1>1
  <2>2. d \in Nat \ {0}
    BY <1>1, <1>3
  <2>3. b \in Nat \ {0} /\ c \in Nat \ {0} /\ c <= b
    <3> HIDE DEF d
    <3>1. cnt >= 1 /\ d >= 1
      BY <1>3, <2>2
    <3>2. 1 * d <= cnt * d
      BY <2>2, <3>1
    <3> QED
      BY <2>2, <3>1, <3>2
  <2> HIDE DEF b, c, n
  <2>4. n \div b \in Nat /\ n \div c \in Nat /\ n \div b <= n \div c
    <3>1. n \div b <= n \div c
      BY <2>1, <2>3, DivShrinks
    <3> QED
      BY <2>1, <2>3, <3>1
  <2>5. Isqrt(n \div b) <= Isqrt(n \div c)
    BY <2>4, IsqrtGrows
  <2>6. Interval(level, cnt) = Isqrt(n \div b) /\ LongestInterval(level) = Isqrt(n \div c)
    BY <1>1, <1>3 DEF Interval, LongestInterval, n, b, c
  <2> QED
    BY <2>5, <2>6
<1>4. CASE level.start < level.end /\ cnt = 0
  BY <1>1, <1>2, <1>4 DEF Interval
<1>5. CASE level.start > level.end
  BY <1>1, <1>2, <1>5 DEF Interval
<1>6. CASE level.start = level.end
  <2>1. Interval(level, cnt) = LongestInterval(level)
    BY <1>6 DEF Interval, LongestInterval
  <2> QED
    BY <1>2, <2>1
<1> QED
  BY <1>1, <1>3, <1>4, <1>5, <1>6

(* What LevelsInFull allows each level to be longer: the slack is a sum.   *)
Slack(levels) == FoldLeft(LAMBDA sum, level : sum + LongestInterval(level), 0, levels)
Intervals == [level \in Levels |-> LongestInterval(level)]

(* An interval is a number.                                                *)
LEMMA IntervalsType == Intervals \in [Levels -> Nat]
BY IntervalType DEF Intervals, LongestInterval

(* The slack of the levels is the sum of their longest intervals.          *)
LEMMA SlackIsSum ==
    ASSUME NEW levels \in Seq(Levels)
    PROVE  Slack(levels) = SumOf(Intervals, levels)
<1> DEFINE D == SUBSET (DOMAIN levels)
           Solves(f) == f = [s \in D |-> IF s = {} THEN 0
                                         ELSE f[s \ {Max(s)}] + LongestInterval(levels[Max(s)])]
           Adds(f) == f = [s \in D |-> IF s = {} THEN 0
                                       ELSE f[s \ {Max(s)}] + Intervals[levels[Max(s)]]]
<1>1. \A s \in D : s # {} => Intervals[levels[Max(s)]] = LongestInterval(levels[Max(s)])
  BY LenProperties, ElementOfSeq, MaxOfPositions DEF Intervals
<1>2. \A f : Solves(f) <=> Adds(f)
  <2> HIDE DEF D
  <2> QED
    BY <1>1
<1>3. (CHOOSE f : Solves(f)) = (CHOOSE f : Adds(f))
  <2> HIDE DEF Solves, Adds
  <2> QED
    BY <1>2
<1>4. Slack(levels) = (CHOOSE f : Solves(f))[DOMAIN levels]
  BY DEF Slack, FoldLeft, MapThenFoldSet
<1>5. SumOf(Intervals, levels) = (CHOOSE f : Adds(f))[DOMAIN levels]
  BY DEF SumOf, FoldLeft, MapThenFoldSet
<1> QED
  BY <1>3, <1>4, <1>5

(* The duration and the slack of the levels that are over.                 *)
Over == SubSeq(scenario, 1, gen.curStep - 1)

(* The inductive form of LevelsInFull: within a level the next entry is    *)
(* never further behind its end than one interval, and it is the entry     *)
(* beyond the end that ends the level.                                     *)
LevelsInv ==
    /\ gen.curStep <= Len(scenario) + 1
    /\ gen.curStep > 1 => gen.finishedSteps > DurationOf(Over)
    /\ gen.finishedSteps >= DurationOf(Over)
    /\ gen.finishedSteps <= DurationOf(Over) + Slack(Over)
    /\ gen.pc = "compute" /\ gen.curStep <= Len(scenario) =>
           gen.accum <= gen.finishedSteps + Level.dur
    /\ gen.pc = "send" =>
           /\ gen.curStep <= Len(scenario)
           /\ gen.accum <= gen.finishedSteps + Level.dur + LongestInterval(Level)

(* The numbers that the invariant compares.                                *)
LEMMA LevelsTypes ==
    ASSUME GenTypeOK, gen.curStep <= Len(scenario) + 1
    PROVE  /\ scenario \in Seq(Levels) /\ Len(scenario) \in Nat
           /\ Over \in Seq(Levels)
           /\ DurationOf(Over) \in Nat /\ Slack(Over) \in Nat
           /\ gen.curStep \in Nat \ {0} /\ gen.accum \in Nat /\ gen.finishedSteps \in Nat
           /\ gen.cnt \in Nat
           /\ gen.curStep <= Len(scenario) =>
                /\ Level \in Levels /\ Level.dur \in Nat /\ LongestInterval(Level) \in Nat
<1>1. /\ scenario \in Seq(Levels) /\ Len(scenario) \in Nat
      /\ gen.curStep \in Nat \ {0} /\ gen.accum \in Nat /\ gen.finishedSteps \in Nat
      /\ gen.cnt \in Nat
  BY ScenarioAssumption, LenProperties DEF GenTypeOK
<1>2. \A i \in 1 .. Len(scenario) : scenario[i] \in Levels
  BY <1>1, ElementOfSeq
<1>3. Over \in Seq(Levels)
  BY <1>1, <1>2, SubSeqProperties DEF Over
<1>4. DurationOf(Over) \in Nat /\ Slack(Over) \in Nat
  BY <1>3, DurationType, SlackIsSum, IntervalsType, SumType
<1>5. ASSUME gen.curStep <= Len(scenario)
      PROVE  Level \in Levels
  BY <1>1, <1>2, <1>5 DEF Level
<1>6. ASSUME gen.curStep <= Len(scenario)
      PROVE  Level.dur \in Nat /\ LongestInterval(Level) \in Nat
  <2>1. Level \in Levels
    BY <1>5, <1>6
  <2> QED
    BY <2>1, IntervalType DEF Levels, LongestInterval
<1> QED
  BY <1>1, <1>3, <1>4, <1>5, <1>6

(* The end of a level adds its duration, and its longest interval.         *)
LEMMA LevelEnds ==
    ASSUME GenTypeOK, gen.curStep <= Len(scenario), scenario' = scenario,
           gen'.curStep = gen.curStep + 1
    PROVE  /\ DurationOf(Over') = DurationOf(Over) + Level.dur
           /\ Slack(Over') = Slack(Over) + LongestInterval(Level)
<1> DEFINE k == gen.curStep
<1>1. scenario \in Seq(Levels) /\ k \in 1 .. Len(scenario) /\ Level \in Levels
      /\ Over \in Seq(Levels)
  <2>1. scenario \in Seq(Levels) /\ Len(scenario) \in Nat /\ k \in Nat \ {0}
    BY ScenarioAssumption, LenProperties DEF GenTypeOK
  <2>2. k <= Len(scenario) + 1
    BY <2>1
  <2> QED
    BY <2>1, <2>2, LevelsTypes
<1>2. Over = SubSeq(scenario, 1, k - 1) /\ Over' = SubSeq(scenario, 1, k) /\ Level = scenario[k]
  BY <1>1 DEF Over, Level
<1>3. Over' \in Seq(Levels)
  BY <1>1, <1>2, ElementOfSeq, SubSeqProperties
<1>4. DurationOf(Over') = DurationOf(Over) + Level.dur
  BY <1>1, <1>2, DurationStep
<1>5. SumOf(Intervals, Over') = SumOf(Intervals, Over) + Intervals[Level]
  BY <1>1, <1>2, IntervalsType, SumStep
<1>6. Slack(Over') = SumOf(Intervals, Over') /\ Slack(Over) = SumOf(Intervals, Over)
  BY <1>1, <1>3, SlackIsSum
<1> QED
  BY <1>1, <1>4, <1>5, <1>6 DEF Intervals

(* The time a level ends lies between the sums, with this level added.     *)
LEMMA EndOfLevel ==
    ASSUME NEW accum \in Nat, NEW finished \in Nat, NEW over \in Nat, NEW slack \in Nat,
           NEW dur \in Nat, NEW longest \in Nat,
           over <= finished, finished <= over + slack,
           finished + dur < accum, accum <= finished + dur + longest
    PROVE  over + dur < accum /\ accum <= (over + dur) + (slack + longest)
OBVIOUS

(* Every step of the generator keeps the invariant.                        *)
LEMMA LevelsStep ==
    ASSUME GenTypeOK, LevelsInv,
           GenerateOffset \/ GeneratorEnds \/ SendOffset \/ UNCHANGED schedVars
    PROVE  LevelsInv'
<1>0. /\ DurationOf(Over) \in Nat /\ Slack(Over) \in Nat /\ Len(scenario) \in Nat
      /\ gen.curStep \in Nat \ {0} /\ gen.accum \in Nat /\ gen.finishedSteps \in Nat
      /\ gen.cnt \in Nat
      /\ gen.curStep <= Len(scenario) =>
           /\ Level \in Levels /\ Level.dur \in Nat /\ LongestInterval(Level) \in Nat
      /\ gen \in [pc : {"compute", "send", "stuck", "closed"},
                  curStep : Nat \ {0}, cnt : Nat, accum : Nat, finishedSteps : Nat]
  BY LevelsTypes DEF LevelsInv, GenTypeOK
<1>1. scenario' = scenario
  BY DEF GenerateOffset, GeneratorEnds, SendOffset, schedVars
<1>2. ASSUME gen'.curStep = gen.curStep
      PROVE  Over' = Over /\ Level' = Level
  BY <1>1, <1>2 DEF Over, Level
<1>3. CASE GenerateOffset
  <2> DEFINE i == Interval(Level, gen.cnt)
  <2>1. gen.pc = "compute" /\ gen.curStep <= Len(scenario)
    BY <1>3 DEF GenerateOffset
  <2>2. i \in Nat /\ i <= LongestInterval(Level)
    BY <1>0, <2>1, IntervalType, IntervalAtMost
  <2>3. \/ gen' = [gen EXCEPT !.pc = "stuck"]
        \/ gen' = [gen EXCEPT !.pc = "send", !.accum = @ + i]
    BY <1>3 DEF GenerateOffset
  <2> HIDE DEF i
  <2>4. /\ gen'.curStep = gen.curStep /\ gen'.finishedSteps = gen.finishedSteps
        /\ gen'.pc \in {"stuck", "send"}
        /\ gen'.pc = "send" => gen'.accum = gen.accum + i
    BY <1>0, <2>3
  <2>5. gen.accum <= gen.finishedSteps + Level.dur
    BY <2>1 DEF LevelsInv
  <2>6. gen.accum + i <= gen.finishedSteps + Level.dur + LongestInterval(Level)
    BY <1>0, <2>1, <2>2, <2>5
  <2> QED
    BY <1>1, <1>2, <2>1, <2>4, <2>6 DEF LevelsInv
<1>4. CASE GeneratorEnds
  <2>1. gen' = [gen EXCEPT !.pc = "closed"]
    BY <1>4 DEF GeneratorEnds
  <2>2. /\ gen'.curStep = gen.curStep /\ gen'.finishedSteps = gen.finishedSteps
        /\ gen'.pc = "closed"
    BY <1>0, <2>1
  <2> QED
    BY <1>1, <1>2, <2>2 DEF LevelsInv
<1>5. CASE SendOffset
  <2>1. gen.pc = "send" /\ gen.curStep <= Len(scenario)
        /\ gen.accum <= gen.finishedSteps + Level.dur + LongestInterval(Level)
    BY <1>5 DEF SendOffset, LevelsInv
  <2>2. CASE gen.accum > gen.finishedSteps + Level.dur
    <3>1. gen' = [gen EXCEPT !.pc = "compute", !.cnt = @ + 1,
                             !.curStep = @ + 1, !.finishedSteps = gen.accum]
      BY <1>5, <2>2 DEF SendOffset
    <3>2. /\ gen'.curStep = gen.curStep + 1 /\ gen'.finishedSteps = gen.accum
          /\ gen'.accum = gen.accum /\ gen'.pc = "compute"
      BY <1>0, <3>1
    <3>3. /\ DurationOf(Over)' = DurationOf(Over) + Level.dur
          /\ Slack(Over)' = Slack(Over) + LongestInterval(Level)
      BY <1>1, <2>1, <3>2, LevelEnds
    <3>4. /\ gen.finishedSteps >= DurationOf(Over)
          /\ gen.finishedSteps <= DurationOf(Over) + Slack(Over)
      BY DEF LevelsInv
    <3>5. /\ gen'.finishedSteps > DurationOf(Over)'
          /\ gen'.finishedSteps >= DurationOf(Over)'
          /\ gen'.finishedSteps <= DurationOf(Over)' + Slack(Over)'
          /\ gen'.curStep <= Len(scenario) + 1
      <4>1. /\ DurationOf(Over) + Level.dur < gen.accum
            /\ gen.accum <= (DurationOf(Over) + Level.dur)
                              + (Slack(Over) + LongestInterval(Level))
        BY <1>0, <2>1, <2>2, <3>4, EndOfLevel
      <4>2. DurationOf(Over) + Level.dur \in Nat /\ gen.curStep + 1 <= Len(scenario) + 1
        <5>1. PICK over, dur, step, levels : /\ over = DurationOf(Over) /\ dur = Level.dur
                                             /\ step = gen.curStep /\ levels = Len(scenario)
          OBVIOUS
        <5>2. over \in Nat /\ dur \in Nat /\ step \in Nat /\ levels \in Nat /\ step <= levels
          BY <1>0, <2>1, <5>1
        <5>3. over + dur \in Nat /\ step + 1 <= levels + 1
          BY ONLY <5>2
        <5> QED
          BY <5>1, <5>3
      <4> QED
        BY <1>0, <3>2, <3>3, <4>1, <4>2
    <3>6. ASSUME gen'.curStep <= Len(scenario)'
          PROVE  gen'.accum <= gen'.finishedSteps + Level'.dur
      <4>1. Level'.dur \in Nat
        <5>1. scenario[gen.curStep + 1] \in Levels
          BY <1>0, <1>1, <3>2, <3>6, LevelsTypes, ElementOfSeq DEF LevelsInv
        <5> QED
          BY <1>1, <3>2, <5>1 DEF Level, Levels
      <4> QED
        BY <1>0, <3>2, <4>1
    <3> QED
      BY <1>1, <3>2, <3>5, <3>6 DEF LevelsInv
  <2>3. CASE ~(gen.accum > gen.finishedSteps + Level.dur)
    <3>1. gen' = [gen EXCEPT !.pc = "compute", !.cnt = @ + 1]
      BY <1>5, <2>3 DEF SendOffset
    <3>2. /\ gen'.curStep = gen.curStep /\ gen'.finishedSteps = gen.finishedSteps
          /\ gen'.accum = gen.accum /\ gen'.pc = "compute"
      BY <1>0, <3>1
    <3>3. gen.accum <= gen.finishedSteps + Level.dur
      BY <1>0, <2>1, <2>3
    <3> QED
      BY <1>1, <1>2, <3>2, <3>3 DEF LevelsInv
  <2> QED
    BY <2>2, <2>3
<1>6. CASE UNCHANGED schedVars
  <2>1. gen' = gen
    BY <1>6 DEF schedVars
  <2> QED
    BY <1>1, <1>2, <2>1 DEF LevelsInv
<1> QED
  BY <1>3, <1>4, <1>5, <1>6

(* Nothing is over at the start.                                           *)
LEMMA LevelsStart == ASSUME ScheduleInit PROVE LevelsInv
<1>1. /\ scenario \in Seq(Levels) /\ Len(scenario) \in Nat
      /\ gen.pc = "compute" /\ gen.curStep = 1 /\ gen.accum = 0 /\ gen.finishedSteps = 0
  BY ScenarioAssumption, LenProperties DEF ScheduleInit
<1>2. Over = << >>
  BY <1>1, SubSeqEmpty DEF Over
<1>3. DurationOf(Over) = 0 /\ Slack(Over) = 0
  BY <1>2, DurationOfNone, SlackIsSum, IntervalsType, SumOfNone, EmptySeq
<1>4. gen.curStep <= Len(scenario) => Level.dur \in Nat
  <2>1. \A i \in 1 .. Len(scenario) : scenario[i] \in Levels
    BY <1>1, ElementOfSeq
  <2> QED
    BY <1>1, <2>1 DEF Level, Levels
<1> QED
  BY <1>1, <1>3, <1>4 DEF LevelsInv

(* No level of any scenario is cut short, and none is drawn out by more    *)
(* than the intervals that straddle the ends of the levels up to it:       *)
(* finishedSteps may restart from an entry and not from the end of a level,*)
(* yet the error of each level is bounded by its own longest interval.     *)
THEOREM ScheduleLevelsInFull == ScheduleSpec => []LevelsInFull
<1>1. ScheduleInit => LevelsInv
  BY LevelsStart
<1>2. GenTypeOK /\ LevelsInv /\ [ScheduleNext]_schedVars => LevelsInv'
  BY LevelsStep DEF ScheduleNext, GeneratorDone
<1>3. LevelsInv => LevelsInFull
  BY DEF LevelsInv, LevelsInFull, Over, Slack
<1> QED
  BY <1>1, <1>2, <1>3, ScheduleTypeCorrect, PTL DEF ScheduleSpec

-----------------------------------------------------------------------------
(* Panics and floods                                                       *)

(* The clock tells the entries of a level apart: none of the intervals of  *)
(* as many entries as the model counts is rounded to zero.  With ticks of  *)
(* a nanosecond a flat level is paced up to 10^9 requests per second.      *)
Paced(level) ==
    HasRate(level) =>
        IF level.start = level.end THEN level.end <= Second
        ELSE 2 * CountBound * (level.end - level.start) <= Second * level.dur

AllPaced == \A k \in DOMAIN scenario : Paced(scenario[k])

(* Only the first entry of a schedule comes without time, unless a level   *)
(* has no rate; and past the first level some time has gone by.            *)
StuckInv ==
    /\ AllPaced
    /\ gen.pc = "stuck" => ~HasRate(Level)
    /\ gen.pc = "send" => gen.cnt < CountBound
    /\ gen.pc = "send" \/ (gen.curStep = 1 /\ gen.cnt # 0) => gen.curStep <= Len(scenario)
    /\ gen.pc = "compute" /\ gen.cnt = 0 => gen.accum = 0
    /\ gen.curStep # 1 => gen.accum # 0
    /\ gen.curStep = 1 /\ gen.cnt # 0 /\ HasRate(Level) /\ gen.accum = 0 =>
           gen.pc = "compute" /\ gen.cnt = 1

(* The root of a positive number is positive.                              *)
LEMMA IsqrtPositive ==
    ASSUME NEW n \in Nat \ {0}
    PROVE  Isqrt(n) # 0
<1> DEFINE roots == {r \in 1 .. n : r <= n \div r}
<1>1. IsFiniteSet(1 .. n) /\ roots \subseteq 1 .. n
  BY FS_Interval
<1>2. IsFiniteSet(roots)
  BY <1>1, FS_Subset
<1>3. 1 \in roots
  OBVIOUS
<1> QED
  BY <1>2, <1>3, FS_EmptySet DEF Isqrt

(* A paced level with a rate has an interval after the first entry.        *)
LEMMA PacedInterval ==
    ASSUME NEW level \in Levels, Paced(level), HasRate(level),
           NEW cnt \in Nat, cnt # 0, cnt < CountBound
    PROVE  Interval(level, cnt) # 0
<1>1. /\ level.start \in Nat /\ level.end \in Nat /\ level.dur \in Nat
      /\ Second \in Nat \ {0} /\ CountBound \in Nat
  BY ScheduleAssumption DEF Levels
<1>2. CASE level.start = level.end
  <2>1. level.end # 0 /\ level.end <= Second
    BY <1>1, <1>2 DEF Paced, HasRate
  <2>2. Interval(level, cnt) = Second \div level.end
    BY <1>2, <2>1 DEF Interval
  <2>3. 1 <= Second \div level.end
    BY ONLY <1>1, <2>1
  <2> QED
    BY ONLY <1>1, <2>1, <2>2, <2>3
<1>3. CASE level.start # level.end
  <2> DEFINE n == Second * level.dur
             d == level.end - level.start
             b == 2 * cnt * d
  <2>1. level.start < level.end /\ d \in Nat \ {0} /\ n \in Nat
    BY <1>1, <1>3 DEF HasRate
  <2>2. 2 * CountBound * d <= n
    BY <1>3 DEF Paced
  <2>3. Interval(level, cnt) = Isqrt(n \div b)
    BY <1>1, <1>3, <2>1 DEF Interval
  <2> HIDE DEF n, d
  <2>4. b \in Nat \ {0} /\ b <= 2 * CountBound * d
    <3>1. PICK x \in Nat : CountBound = cnt + x
      <4>1. CountBound - cnt \in Nat /\ CountBound = cnt + (CountBound - cnt)
        BY ONLY <1>1, cnt \in Nat, cnt < CountBound
      <4> QED
        BY <4>1
    <3>2. x * d \in Nat /\ cnt * d \in Nat \ {0}
      BY ONLY <2>1, cnt \in Nat, cnt # 0, x \in Nat
    <3>3. CountBound * d = cnt * d + x * d
      BY ONLY <2>1, <3>1, cnt \in Nat, x \in Nat
    <3>4. b = 2 * (cnt * d) /\ 2 * CountBound * d = 2 * (CountBound * d)
      BY ONLY <1>1, <2>1, cnt \in Nat
    <3> QED
      BY ONLY <3>2, <3>3, <3>4
  <2> HIDE DEF b
  <2>5. b \in Nat \ {0} /\ b <= n
    BY ONLY <1>1, <2>1, <2>2, <2>4
  <2>6. n \div b \in Nat \ {0}
    BY ONLY <2>1, <2>5
  <2> QED
    BY <2>3, <2>6, IsqrtPositive
<1> QED
  BY <1>2, <1>3

(* A schedule that has not begun.                                          *)
LEMMA StuckStart == ASSUME ScheduleInit, AllPaced PROVE StuckInv
<1>1. gen.pc = "compute" /\ gen.curStep = 1 /\ gen.cnt = 0 /\ gen.accum = 0
  BY DEF ScheduleInit
<1> QED
  BY <1>1 DEF StuckInv

(* Every step of the generator keeps the invariant.                        *)
LEMMA StuckStep ==
    ASSUME GenTypeOK, StuckInv,
           GenerateOffset \/ GeneratorEnds \/ SendOffset \/ UNCHANGED schedVars
    PROVE  StuckInv'
<1> DEFINE Gens == [pc : {"compute", "send", "stuck", "closed"},
                    curStep : Nat \ {0}, cnt : Nat, accum : Nat, finishedSteps : Nat]
<1>0. /\ gen \in Gens /\ CountBound \in Nat
      /\ gen.curStep \in Nat \ {0} /\ gen.cnt \in Nat /\ gen.accum \in Nat
      /\ gen.finishedSteps \in Nat
      /\ scenario \in Seq(Levels) /\ Len(scenario) \in Nat
      /\ \A k \in 1 .. Len(scenario) : scenario[k] \in Levels /\ scenario[k].dur \in Nat
  <2>1. gen \in Gens /\ scenario \in Seq(Levels) /\ CountBound \in Nat
    BY ScenarioAssumption, ScheduleAssumption DEF GenTypeOK
  <2>2. Len(scenario) \in Nat /\ \A k \in 1 .. Len(scenario) : scenario[k] \in Levels
    BY <2>1, LenProperties, ElementOfSeq
  <2>3. \A level \in Levels : level.dur \in Nat
    BY DEF Levels
  <2>4. /\ gen.curStep \in Nat \ {0} /\ gen.cnt \in Nat /\ gen.accum \in Nat
        /\ gen.finishedSteps \in Nat
    BY <2>1
  <2> QED
    BY <2>1, <2>2, <2>3, <2>4
<1>1. CASE GenerateOffset
  <2> DEFINE i == Interval(Level, gen.cnt)
  <2>1. /\ gen.pc = "compute" /\ gen.curStep \in 1 .. Len(scenario) /\ gen.cnt < CountBound
        /\ UNCHANGED scenario
    BY <1>0, <1>1 DEF GenerateOffset
  <2>2. Level \in Levels /\ Paced(Level)
    BY <1>0, <2>1 DEF StuckInv, AllPaced, Level
  <2>3. i \in Nat
    BY <1>0, <2>2, IntervalType
  <2>4. gen.cnt # 0 /\ HasRate(Level) => i # 0
    BY <1>0, <2>1, <2>2, PacedInterval
  <2>5. gen' = IF gen.accum # 0 /\ i = 0 THEN [gen EXCEPT !.pc = "stuck"]
               ELSE [gen EXCEPT !.pc = "send", !.accum = @ + i]
    BY <1>1 DEF GenerateOffset, StuckAt
  <2> HIDE DEF i
  <2>6. CASE gen.accum # 0 /\ i = 0
    <3>1. /\ gen'.pc = "stuck" /\ gen'.curStep = gen.curStep /\ gen'.cnt = gen.cnt
          /\ gen'.accum = gen.accum
      BY <1>0, <2>5, <2>6
    <3>2. Level' = Level
      BY <2>1, <3>1 DEF Level
    <3>3. gen.cnt # 0
      BY <2>1, <2>6 DEF StuckInv
    <3>4. ~HasRate(Level)
      BY <2>4, <2>6, <3>3
    <3>5. HasRate(Level)' = HasRate(Level) /\ AllPaced' = AllPaced
      BY <2>1, <3>2 DEF HasRate, AllPaced
    <3> HIDE DEF Level, HasRate, AllPaced
    <3> QED
      BY <2>1, <2>6, <3>1, <3>4, <3>5 DEF StuckInv
  <2>7. CASE ~(gen.accum # 0 /\ i = 0)
    <3>1. /\ gen'.pc = "send" /\ gen'.curStep = gen.curStep /\ gen'.cnt = gen.cnt
          /\ gen'.accum = gen.accum + i
      BY <1>0, <2>5, <2>7
    <3>2. Level' = Level
      BY <2>1, <3>1 DEF Level
    <3>3. HasRate(Level)' = HasRate(Level) /\ AllPaced' = AllPaced
      BY <2>1, <3>2 DEF HasRate, AllPaced
    <3>4. gen.accum # 0 => gen'.accum # 0
      BY <1>0, <2>3, <3>1
    <3>5. gen.cnt # 0 /\ HasRate(Level) => gen'.accum # 0
      BY <1>0, <2>3, <2>4, <3>1
    <3> HIDE DEF Level, HasRate, AllPaced
    <3> QED
      BY <2>1, <3>1, <3>3, <3>4, <3>5 DEF StuckInv
  <2> QED
    BY <2>6, <2>7
<1>2. CASE GeneratorEnds
  <2>1. /\ gen'.pc = "closed" /\ gen'.curStep = gen.curStep /\ gen'.cnt = gen.cnt
        /\ gen'.accum = gen.accum /\ UNCHANGED scenario
        /\ gen.pc = "compute" /\ gen.curStep > Len(scenario)
    BY <1>0, <1>2 DEF GeneratorEnds
  <2>2. gen.curStep = 1 => gen.cnt = 0
    BY <1>0, <2>1 DEF StuckInv
  <2>3. AllPaced' = AllPaced
    BY <2>1 DEF AllPaced
  <2> HIDE DEF Level, HasRate, AllPaced
  <2> QED
    BY <2>1, <2>2, <2>3 DEF StuckInv
<1>3. CASE SendOffset
  <2>1. /\ gen.pc = "send" /\ UNCHANGED scenario
        /\ gen.curStep \in 1 .. Len(scenario) /\ Level.dur \in Nat
    BY <1>0, <1>3 DEF SendOffset, StuckInv, Level
  <2>2. gen' = IF gen.accum > gen.finishedSteps + Level.dur
               THEN [gen EXCEPT !.pc = "compute", !.cnt = @ + 1,
                                !.curStep = @ + 1, !.finishedSteps = gen.accum]
               ELSE [gen EXCEPT !.pc = "compute", !.cnt = @ + 1]
    BY <1>3 DEF SendOffset
  <2>3. AllPaced' = AllPaced
    BY <2>1 DEF AllPaced
  <2>4. CASE gen.accum > gen.finishedSteps + Level.dur
    <3>1. /\ gen'.pc = "compute" /\ gen'.curStep = gen.curStep + 1 /\ gen'.cnt = gen.cnt + 1
          /\ gen'.accum = gen.accum
      BY <1>0, <2>2, <2>4
    <3>2. gen.accum # 0 /\ gen.curStep + 1 # 1 /\ gen.cnt + 1 # 0
      BY <1>0, <2>1, <2>4
    <3> HIDE DEF Level, HasRate, AllPaced
    <3> QED
      BY <2>3, <3>1, <3>2 DEF StuckInv
  <2>5. CASE ~(gen.accum > gen.finishedSteps + Level.dur)
    <3>1. /\ gen'.pc = "compute" /\ gen'.curStep = gen.curStep /\ gen'.cnt = gen.cnt + 1
          /\ gen'.accum = gen.accum
      BY <1>0, <2>2, <2>5
    <3>2. gen.cnt + 1 # 0 /\ (gen.cnt = 0 => gen.cnt + 1 = 1) /\ gen.curStep <= Len(scenario)
      BY <1>0, <2>1
    <3>3. Level' = Level
      BY <2>1, <3>1 DEF Level
    <3>4. HasRate(Level)' = HasRate(Level)
      BY <3>3 DEF HasRate
    <3> HIDE DEF Level, HasRate, AllPaced
    <3> QED
      BY <2>1, <2>3, <3>1, <3>2, <3>4 DEF StuckInv
  <2> QED
    BY <2>4, <2>5
<1>4. CASE UNCHANGED schedVars
  BY <1>4 DEF schedVars, StuckInv, AllPaced, Level
<1> QED
  BY <1>1, <1>2, <1>3, <1>4

(* The invariant says what a panic and a flood need.                       *)
LEMMA StuckMeans == ASSUME GenTypeOK, StuckInv PROVE StuckOnlyWithoutRate
<1>1. gen.cnt \in Nat /\ gen.accum \in Nat
  BY DEF GenTypeOK
<1>2. ASSUME Flood PROVE ~HasRate(Level)
  <2>1. gen.pc = "compute" /\ gen.cnt # 0 /\ gen.cnt # 1 /\ gen.accum = 0
    BY <1>1, <1>2 DEF Flood
  <2> HIDE DEF Level, HasRate
  <2> QED
    BY <2>1 DEF StuckInv
<1>3. gen.pc = "stuck" => ~HasRate(Level)
  BY DEF StuckInv
<1> QED
  BY <1>2, <1>3 DEF StuckOnlyWithoutRate

(* In a scenario that the clock is fine enough for, the generator panics   *)
(* or sends a flood only on a level without a rate: not at the first entry *)
(* of a test, not where one level follows another, and not late on a ramp. *)
THEOREM ScheduleStuckOnlyWithoutRate == ScheduleSpec /\ AllPaced => []StuckOnlyWithoutRate
<1>1. ScheduleInit /\ AllPaced => StuckInv
  BY StuckStart
<1>2. GenTypeOK /\ StuckInv /\ [ScheduleNext]_schedVars => StuckInv'
  BY StuckStep DEF ScheduleNext, GeneratorDone
<1>3. GenTypeOK /\ StuckInv => StuckOnlyWithoutRate
  BY StuckMeans
<1> QED
  BY <1>1, <1>2, <1>3, ScheduleTypeCorrect, PTL DEF ScheduleSpec

-----------------------------------------------------------------------------
(* Types                                                                   *)

(* As far as the pool is concerned the open workload takes only steps of   *)
(* the pool.                                                               *)
LEMMA OpenPoolStep ==
    ASSUME TypeOK, [Next]_vars
    PROVE  [PoolNext]_poolVars
<1>0. /\ spawned \in 0 .. WorkerBound
      /\ stopping \in 0 .. spawned
      /\ current \in Slots
      /\ slot \in [Workers -> Slots]
      /\ Unscheduled \in Slots
  BY DEF TypeOK, PoolTypeOK, ProcessTypeOK, OpenTypeOK, Slots, Unscheduled
<1>1. ASSUME outcome = "running", RunStep
      PROVE  [PoolNext]_poolVars
  <2>1. CASE \E w \in Workers : HandOver(w)
    BY <1>0, <1>1, <2>1 DEF HandOver, ReceiveSlot, PoolNext
  <2>2. CASE ProcessEnds("unordered_schedule")
    BY <1>1, <2>2 DEF PoolNext, Endings
  <2>3. CASE SpawnWorker \/ UNCHANGED poolVars
    BY <1>1, <2>3 DEF PoolNext
  <2> QED
    BY <1>1, <2>1, <2>2, <2>3 DEF RunStep, StartRun, SpawnInitial, NextOffset,
       CheckOffset, NobodyReady, Grow
<1>2. ASSUME outcome = "running", WindDownStep
      PROVE  [PoolNext]_poolVars
  <2>1. CASE StopNextWorker
    <3>1. stopping + 1 \in Workers
      BY <1>0, <2>1, PoolAssumption DEF StopNextWorker, Workers
    <3> QED
      BY <1>2, <2>1, <3>1 DEF StopNextWorker, PoolNext
  <2>2. CASE MainReturns
    BY <1>2, <2>2 DEF MainReturns, PoolNext, Endings
  <2>3. CASE UNCHANGED poolVars
    BY <2>3
  <2> QED
    BY <1>2, <2>1, <2>2, <2>3 DEF WindDownStep, WindDown, StopReturns, RunReturns, CloseOutput
<1>3. ASSUME outcome = "running", GeneratorStep
      PROVE  [PoolNext]_poolVars
  BY <1>3 DEF GeneratorStep, PoolNext, Endings
<1>4. ASSUME outcome = "running", NEW w \in Workers, WorkerAction(w)
      PROVE  [PoolNext]_poolVars
  <2>1. CASE WorkerStep(w)
    BY <1>4, <2>1 DEF PoolNext
  <2>2. CASE ReceiveClosed(w)
    BY <1>0, <1>4, <2>2 DEF ReceiveClosed, ReceiveSlot, PoolNext
  <2> QED
    BY <1>4, <2>1, <2>2 DEF WorkerAction
<1>5. ASSUME outcome = "running", Background \/ Interrupt \/ SignalStep \/ Clock
      PROVE  [PoolNext]_poolVars
  BY <1>5 DEF Background, Interrupt, SignalStep, SignalBeforeRun, InterruptReturns,
     Clock, PoolNext, Endings
<1>6. CASE UNCHANGED vars
  BY <1>6 DEF vars, poolVars
<1> QED
  BY <1>1, <1>2, <1>3, <1>4, <1>5, <1>6 DEF Next, Terminated

(* The pool never shrinks, so that Stop stays within it.                   *)
LEMMA PoolGrows ==
    ASSUME PoolTypeOK, [PoolNext]_poolVars
    PROVE  spawned' \in Nat /\ spawned <= spawned'
<1>0. spawned \in Nat
  BY DEF PoolTypeOK
<1>1. spawned' = spawned \/ spawned' = spawned + 1
  BY DEF PoolNext, WorkerStep, BeginIteration, Finish, ReceiveSlot, TakePayload, Starve,
     FallAsleep, NoDelay, Wake, Skip, BeginBusy, Punch, Measure, EndBusy, PushResult,
     EndIteration, WriteResult, SpawnWorker, StopWorker, Tick, ProcessEnds, poolVars
<1> QED
  BY <1>0, <1>1

(* What a step of the workload is to the generator.                        *)
LEMMA GeneratorSteps ==
    ASSUME [Next]_vars
    PROVE  GenerateOffset \/ GeneratorEnds \/ SendOffset \/ UNCHANGED schedVars
BY DEF Next, RunStep, StartRun, SpawnInitial, NextOffset, CheckOffset, HandOver, NobodyReady, Grow,
   WindDownStep, GeneratorStep, WorkerAction, Background, Interrupt, SignalStep, Clock, Terminated,
   vars

(* Every step keeps the types; those of the pool by the lemma of the pool. *)
LEMMA OpenTypeStep ==
    ASSUME TypeOK, [Next]_vars
    PROVE  TypeOK'
<1>1. [PoolNext]_poolVars
  BY OpenPoolStep
<1>2. PoolTypeOK'
  BY <1>1, PoolStepType DEF TypeOK
<1>3. GenTypeOK'
  BY GeneratorSteps, GeneratorType DEF TypeOK
<1>4. stopping' \in 0 .. spawned'
  <2>1. /\ spawned \in Nat /\ spawned' \in Nat /\ spawned <= spawned'
        /\ stopping \in 0 .. spawned
    BY <1>1, PoolGrows DEF TypeOK, PoolTypeOK, ProcessTypeOK
  <2>2. stopping' = stopping \/ (stopping' = stopping + 1 /\ stopping < spawned)
    BY DEF Next, RunStep, StartRun, SpawnInitial, NextOffset, CheckOffset, HandOver,
       NobodyReady, Grow, WindDownStep, WindDown, StopNextWorker, StopReturns, RunReturns,
       CloseOutput, MainReturns, GeneratorStep, WorkerAction, Background, Interrupt,
       SignalStep, SignalBeforeRun, InterruptReturns, SignalArrives, Clock, Terminated,
       vars, processVars
  <2> QED
    BY <2>1, <2>2
<1>5. ProcessTypeOK'
  <2>1. /\ ctl' \in {"setup", "spawning", "range", "check", "offer", "grow", "blocked",
                     "stopping"} \cup AfterStop
        /\ done' \in BOOLEAN
        /\ handler' \in {"idle", "waiting"}
        /\ outputOpen' \in BOOLEAN
    BY DEF TypeOK, ProcessTypeOK, AfterStop, AfterRun, Next, RunStep, StartRun, SpawnInitial,
       NextOffset, CheckOffset, HandOver, NobodyReady, Grow, WindDownStep, WindDown,
       StopNextWorker, StopReturns, RunReturns, CloseOutput, MainReturns, GeneratorStep,
       WorkerAction, Background, Interrupt, SignalStep, SignalBeforeRun, InterruptReturns,
       SignalArrives, Clock, Terminated, vars, processVars
  <2> QED
    BY <1>4, <2>1 DEF ProcessTypeOK
<1>6. OpenTypeOK'
  <2>1. current' \in Slots
    <3>1. current' = current \/ current' = [offset |-> gen.accum, entry |-> gen'.cnt]
      BY DEF Next, RunStep, StartRun, SpawnInitial, NextOffset, CheckOffset, HandOver,
         NobodyReady, Grow, WindDownStep, GeneratorStep, WorkerAction, Background, Interrupt,
         SignalStep, Clock, Terminated, vars, openVars
    <3> QED
      BY <1>3, <3>1 DEF TypeOK, OpenTypeOK, GenTypeOK, Slots
  <2>2. last' \in Nat
    <3>1. last' = last \/ last' = current.offset
      BY DEF Next, RunStep, StartRun, SpawnInitial, NextOffset, CheckOffset, HandOver,
         NobodyReady, Grow, WindDownStep, GeneratorStep, WorkerAction, Background, Interrupt,
         SignalStep, Clock, Terminated, vars, openVars
    <3> QED
      BY <3>1 DEF TypeOK, OpenTypeOK, Slots
  <2>3. recorded' \subseteq Nat
    <3>1. recorded' = recorded \/ (recorded' = recorded \cup {writing} /\ writing # Idle)
      BY DEF Next, RunStep, StartRun, SpawnInitial, NextOffset, CheckOffset, HandOver,
         NobodyReady, Grow, WindDownStep, GeneratorStep, WorkerAction, Background,
         WriteResult, Interrupt, SignalStep, Clock, Terminated, vars, openVars
    <3> QED
      BY <3>1 DEF TypeOK, PoolTypeOK, OpenTypeOK
  <2>4. interrupted' \in BOOLEAN
    BY DEF TypeOK, OpenTypeOK, Next, RunStep, StartRun, SpawnInitial, NextOffset, CheckOffset,
       HandOver, NobodyReady, Grow, WindDownStep, GeneratorStep, WorkerAction, Background,
       Interrupt, SignalStep, Clock, Terminated, vars, openVars
  <2> QED
    BY <2>1, <2>2, <2>3, <2>4 DEF OpenTypeOK
<1> QED
  BY <1>2, <1>3, <1>5, <1>6 DEF TypeOK

(* The types hold at the start.                                            *)
LEMMA OpenInitType == Init => TypeOK
<1>1. Init => GenTypeOK
  BY DEF Init, ScheduleInit, GenTypeOK
<1>2. Init => PoolTypeOK
  BY PoolInitType DEF Init
<1>3. Init => ProcessTypeOK /\ OpenTypeOK
  <2>1. Init => stopping \in 0 .. spawned
    BY DEF Init, PoolInit, ProcessInit
  <2>2. Init => done \in BOOLEAN /\ outputOpen \in BOOLEAN /\ interrupted \in BOOLEAN
    BY Zenon DEF Init, ProcessInit
  <2>3. Init => ProcessTypeOK
    BY <2>1, <2>2, Zenon DEF Init, ProcessInit, ProcessTypeOK
  <2>4. Unscheduled \in Slots /\ 0 \in Nat
    BY DEF Slots, Unscheduled
  <2>5. Init => OpenTypeOK
    BY <2>2, <2>4, Zenon DEF Init, OpenTypeOK
  <2> QED
    BY <2>3, <2>5
<1> QED
  BY <1>1, <1>2, <1>3 DEF TypeOK

(* Every variable of the open workload keeps its type.                     *)
THEOREM OpenTypeCorrect == Spec => []TypeOK
BY OpenInitType, OpenTypeStep, PTL DEF Spec

(* The open workload implements the worker pool.                           *)
THEOREM OpenImplementsPool == Spec => PoolSpec
<1>1. Init => PoolInit
  BY DEF Init
<1>2. TypeOK /\ [Next]_vars => [PoolNext]_poolVars
  BY OpenPoolStep
<1> QED
  BY <1>1, <1>2, OpenTypeCorrect, PTL DEF Spec, PoolSpec

(* So the counters are exact in every run of an open workload, no hit is   *)
(* early, and the reported concurrency is within bounds.                   *)
THEOREM OpenPoolInvariant == Spec => [](CountersExact /\ NoCounterPanic /\ NeverEarly /\ ConcurrencyMeasured)
<1>1. PoolInv => CountersExact /\ NoCounterPanic /\ NeverEarly /\ ConcurrencyMeasured
  BY DEF PoolInv
<1> QED
  BY <1>1, OpenImplementsPool, PoolInvariant, PTL

-----------------------------------------------------------------------------
(* The number of workers                                                   *)

(* Which steps spawn, and which send an offset: no other step changes the  *)
(* length of the pool, the number of offsets or the place of Run but to    *)
(* lead it out of the loop.                                                *)
LEMMA OpenStepLimit ==
    ASSUME TypeOK, LimitInv, [Next]_vars
    PROVE  LimitInv'
<1>0. /\ spawned \in Nat /\ gen.cnt \in Nat
      /\ InitialWorkers \in Nat /\ MaxWorkers \in Nat
      /\ MaxWorkers > 0 => InitialWorkers <= MaxWorkers
  BY OpenAssumption DEF TypeOK, PoolTypeOK, GenTypeOK, InitialWorkers, Smaller
<1>1. CASE SpawnInitial
  BY <1>0, <1>1 DEF SpawnInitial, SpawnWorker, LimitInv, poolVars, schedVars
<1>2. CASE NextOffset
  <2>1. /\ UNCHANGED spawned
        /\ \/ gen'.cnt = gen.cnt + 1 /\ ctl' = "check"
           \/ UNCHANGED gen /\ ctl' = "stopping"
    BY <1>2 DEF NextOffset, SendOffset, TypeOK, GenTypeOK, poolVars, schedVars
  <2> QED
    BY <1>0, <2>1 DEF LimitInv
<1>3. CASE Grow
  BY <1>0, <1>3 DEF Grow, SpawnWorker, NotMaxed, LimitInv, poolVars, schedVars
<1>4. CASE CheckOffset \/ NobodyReady \/ StartRun
  <2>1. /\ UNCHANGED <<spawned, gen>>
        /\ \/ ctl' = ctl
           \/ ctl' = "stopping"
           \/ ctl = "check" /\ ctl' = "offer"
           \/ ctl = "offer" /\ ctl' = "grow"
           \/ ctl = "setup" /\ ctl' = "spawning"
    BY <1>4 DEF CheckOffset, ProcessEnds, NobodyReady, StartRun, poolVars, schedVars
  <2> QED
    BY <2>1 DEF LimitInv
<1>5. CASE /\ UNCHANGED spawned /\ gen'.cnt = gen.cnt
           /\ ctl' \in {ctl, "range", "stopped", "returned", "output_closed"}
  BY <1>5 DEF LimitInv
<1>6. ASSUME ~SpawnInitial, ~NextOffset, ~Grow, ~(CheckOffset \/ NobodyReady \/ StartRun)
      PROVE  /\ UNCHANGED spawned /\ gen'.cnt = gen.cnt
             /\ ctl' \in {ctl, "range", "stopped", "returned", "output_closed"}
  <2>1. CASE GeneratorStep
    <3>1. gen'.cnt = gen.cnt
      BY <2>1 DEF GeneratorStep, GenerateOffset, GeneratorEnds, TypeOK, GenTypeOK
    <3> QED
      BY <2>1, <3>1 DEF GeneratorStep, ProcessEnds, processVars, poolVars
  <2>2. CASE \E w \in Workers : HandOver(w)
    BY <2>2 DEF HandOver, ReceiveSlot, schedVars
  <2>3. CASE \E w \in Workers : WorkerAction(w)
    BY <2>3 DEF WorkerAction, ReceiveClosed, ReceiveSlot, WorkerStep, BeginIteration, Finish,
       TakePayload, Starve, FallAsleep, NoDelay, Wake, Skip, BeginBusy, Punch, Measure,
       EndBusy, PushResult, EndIteration, schedVars, processVars
  <2>4. CASE WindDownStep
    BY <2>4 DEF WindDownStep, WindDown, StopNextWorker, StopWorker, StopReturns, RunReturns,
       CloseOutput, MainReturns, ProcessEnds, schedVars, processVars, poolVars
  <2>5. CASE Background \/ Interrupt \/ SignalStep \/ Clock
    BY <2>5 DEF Background, WriteResult, Interrupt, SignalArrives, SignalStep,
       SignalBeforeRun, InterruptReturns, ProcessEnds, Clock, Tick, schedVars, processVars,
       poolVars
  <2>6. CASE UNCHANGED vars
    BY <2>6 DEF vars, schedVars, processVars, poolVars
  <2> QED
    BY <1>6, <2>1, <2>2, <2>3, <2>4, <2>5, <2>6 DEF Next, RunStep, Terminated
<1> QED
  BY <1>1, <1>2, <1>3, <1>4, <1>5, <1>6

(* The pool stays within MaxWorkers, and within what the offsets sent so   *)
(* far can have asked for.                                                 *)
THEOREM OpenWorkersLimited == Spec => []WorkersWithinLimit
<1>1. Init => LimitInv
  BY OpenAssumption DEF Init, PoolInit, ProcessInit, ScheduleInit, LimitInv, InitialWorkers,
     Smaller
<1>2. TypeOK /\ LimitInv /\ [Next]_vars => LimitInv'
  BY OpenStepLimit
<1>3. LimitInv => WorkersWithinLimit
  BY DEF LimitInv, WorkersWithinLimit
<1> QED
  BY <1>1, <1>2, <1>3, OpenTypeCorrect, PTL DEF Spec

-----------------------------------------------------------------------------
(* The order of the schedule                                               *)

(* The offset that Run looks at is not before the last one, and the        *)
(* generator is not before either.                                         *)
OrderInv ==
    /\ last <= gen.accum
    /\ ctl = "check" => last <= current.offset /\ current.offset <= gen.accum
    /\ NeverUnordered

(* Every step keeps the order.                                             *)
LEMMA OrderStep ==
    ASSUME TypeOK, OrderInv, [Next]_vars
    PROVE  OrderInv'
<1>0. /\ last \in Nat /\ current.offset \in Nat /\ gen.accum \in Nat /\ gen'.accum \in Nat
      /\ gen.accum <= gen'.accum
  BY GeneratorSteps, GeneratorGrows, OpenTypeStep DEF TypeOK, OpenTypeOK, GenTypeOK, Slots
<1>1. CASE NextOffset
  <2>1. /\ UNCHANGED <<last, outcome>>
        /\ \/ current' = [offset |-> gen.accum, entry |-> gen'.cnt]
           \/ ctl' = "stopping"
    BY <1>1 DEF NextOffset, poolVars
  <2> QED
    BY <1>0, <2>1 DEF OrderInv, NeverUnordered
<1>2. CASE CheckOffset
  <2>1. ~(current.offset < last)
    BY <1>0, <1>2 DEF CheckOffset, OrderInv
  <2>2. /\ gen' = gen /\ ctl' \in {"stopping", "offer"} /\ outcome' = outcome
        /\ last' = last \/ last' = current.offset
    BY <1>2, <2>1 DEF CheckOffset, schedVars, poolVars
  <2>3. current.offset <= gen.accum
    BY <1>2 DEF CheckOffset, OrderInv
  <2> QED
    BY <1>0, <2>2, <2>3 DEF OrderInv, NeverUnordered
<1>3. CASE /\ UNCHANGED <<last, current>>
           /\ ctl' = "check" => ctl = "check"
           /\ outcome' # "unordered_schedule"
  BY <1>0, <1>3 DEF OrderInv, NeverUnordered
<1>4. ASSUME ~NextOffset, ~CheckOffset
      PROVE  /\ UNCHANGED <<last, current>>
             /\ ctl' = "check" => ctl = "check"
             /\ outcome' # "unordered_schedule"
  <2>1. CASE RunStep
    BY <1>4, <2>1 DEF OrderInv, NeverUnordered, RunStep, StartRun, SpawnInitial, HandOver,
       ReceiveSlot, NobodyReady, Grow, SpawnWorker, openVars, poolVars
  <2>2. CASE WindDownStep
    BY <2>2 DEF OrderInv, NeverUnordered, WindDownStep, WindDown, StopNextWorker, StopWorker,
       StopReturns, RunReturns, CloseOutput, MainReturns, ProcessEnds, openVars, poolVars,
       processVars
  <2>3. CASE GeneratorStep
    BY <2>3 DEF OrderInv, NeverUnordered, GeneratorStep, ProcessEnds, openVars, poolVars,
       processVars
  <2>4. CASE \E w \in Workers : WorkerAction(w)
    BY <2>4 DEF OrderInv, NeverUnordered, WorkerAction, ReceiveClosed, ReceiveSlot, WorkerStep,
       BeginIteration, Finish, TakePayload, Starve, FallAsleep, NoDelay, Wake, Skip, BeginBusy,
       Punch, Measure, EndBusy, PushResult, EndIteration, PanicIfNegative, openVars, processVars
  <2>5. CASE Background \/ Interrupt \/ SignalStep \/ Clock
    BY <2>5 DEF OrderInv, NeverUnordered, Background, WriteResult, Interrupt, SignalArrives,
       SignalStep, SignalBeforeRun, InterruptReturns, ProcessEnds, Clock, Tick, openVars,
       processVars, poolVars
  <2>6. CASE UNCHANGED vars
    BY <2>6 DEF OrderInv, NeverUnordered, vars, openVars, processVars, poolVars
  <2> QED
    BY <2>1, <2>2, <2>3, <2>4, <2>5, <2>6 DEF Next, Terminated
<1> QED
  BY <1>1, <1>2, <1>3, <1>4

(* The panic of Run on a schedule that runs backwards is unreachable, for  *)
(* every scenario: an entry is never before the one sent last.             *)
THEOREM ScheduleInOrder == Spec => []NeverUnordered
<1>1. Init => OrderInv
  BY DEF Init, PoolInit, ProcessInit, ScheduleInit, OrderInv, NeverUnordered
<1>2. TypeOK /\ OrderInv /\ [Next]_vars => OrderInv'
  BY OrderStep
<1>3. OrderInv => NeverUnordered
  BY DEF OrderInv
<1> QED
  BY <1>1, <1>2, <1>3, OpenTypeCorrect, PTL DEF Spec

(* The levels take their full time in the workload too, whose Run receives *)
(* the offsets only when it has handed the last one over.                  *)
THEOREM OpenLevelsInFull == Spec => []LevelsInFull
<1>1. Init => LevelsInv
  BY LevelsStart DEF Init
<1>2. TypeOK /\ LevelsInv /\ [Next]_vars => LevelsInv'
  BY GeneratorSteps, LevelsStep DEF TypeOK
<1>3. LevelsInv => LevelsInFull
  BY DEF LevelsInv, LevelsInFull, Over, Slack
<1> QED
  BY <1>1, <1>2, <1>3, OpenTypeCorrect, PTL DEF Spec

(* In the workload the panic of the generator needs a level without a rate *)
(* as well.                                                                *)
THEOREM OpenStuckOnlyWithoutRate == Spec /\ AllPaced => []StuckOnlyWithoutRate
<1>1. Init /\ AllPaced => StuckInv
  BY StuckStart DEF Init
<1>2. TypeOK /\ StuckInv /\ [Next]_vars => StuckInv'
  BY GeneratorSteps, StuckStep DEF TypeOK
<1>3. TypeOK /\ StuckInv => StuckOnlyWithoutRate
  BY StuckMeans DEF TypeOK
<1> QED
  BY <1>1, <1>2, <1>3, OpenTypeCorrect, PTL DEF Spec

-----------------------------------------------------------------------------
(* The end of a run                                                        *)

(* Stop has told the workers it has passed, and all of them once it has    *)
(* returned.                                                               *)
ToldInv ==
    /\ ctl = "stopping" => 1 .. stopping \subseteq stopped
    /\ ctl \in AfterStop => 1 .. spawned \subseteq stopped
    /\ ctl \notin {"stopping"} \cup AfterStop => stopping = 0

(* Stop begins with the first worker and misses none; none is spawned      *)
(* behind it, and no flag is ever taken back.                              *)
LEMMA ToldStep ==
    ASSUME TypeOK, ToldInv, [Next]_vars
    PROVE  ToldInv'
<1>0. spawned \in Nat /\ stopping \in Nat
  BY DEF TypeOK, PoolTypeOK, ProcessTypeOK
<1>1. CASE RunStep
  <2>1. /\ UNCHANGED <<stopping, stopped>>
        /\ ctl \notin {"stopping"} \cup AfterStop
        /\ ctl' \notin AfterStop
    BY <1>1 DEF RunStep, StartRun, SpawnInitial, NextOffset, CheckOffset, HandOver, ReceiveSlot,
       NobodyReady, Grow, SpawnWorker, ProcessEnds, poolVars, AfterStop, AfterRun
  <2> QED
    BY <2>1 DEF ToldInv
<1>2. CASE WindDownStep
  <2>1. CASE StopNextWorker
    <3>1. /\ ctl = "stopping" /\ ctl' = ctl /\ stopping' = stopping + 1
          /\ stopped' = stopped \cup {stopping + 1} /\ "stopping" \notin AfterStop
      BY <2>1 DEF StopNextWorker, StopWorker, AfterStop, AfterRun
    <3>2. \A w \in 1 .. stopping + 1 : w \in 1 .. stopping \/ w = stopping + 1
      BY <1>0
    <3> QED
      BY <1>0, <3>1, <3>2 DEF ToldInv
  <2>2. CASE StopReturns
    <3>1. /\ ctl = "stopping" /\ stopping = spawned /\ ctl' = "stopped"
          /\ UNCHANGED <<stopping, spawned, stopped>>
      BY <2>2 DEF StopReturns, poolVars
    <3> QED
      BY <3>1 DEF ToldInv, AfterStop
  <2>3. CASE RunReturns \/ CloseOutput \/ MainReturns
    BY <2>3 DEF RunReturns, CloseOutput, MainReturns, ProcessEnds, poolVars, processVars,
       ToldInv, AfterStop, AfterRun
  <2> QED
    BY <1>2, <2>1, <2>2, <2>3 DEF WindDownStep, WindDown
<1>3. CASE UNCHANGED <<ctl, stopping, spawned, stopped>>
  BY <1>3 DEF ToldInv
<1>4. ASSUME ~RunStep, ~WindDownStep
      PROVE  UNCHANGED <<ctl, stopping, spawned, stopped>>
  BY <1>4 DEF Next, GeneratorStep, WorkerAction, ReceiveClosed, ReceiveSlot, WorkerStep,
     BeginIteration, Finish, TakePayload, Starve, FallAsleep, NoDelay, Wake, Skip, BeginBusy,
     Punch, Measure, EndBusy, PushResult, EndIteration, Background, WriteResult, Interrupt,
     SignalArrives, SignalStep, SignalBeforeRun, InterruptReturns, ProcessEnds, Clock, Tick,
     Terminated, vars, poolVars, processVars
<1> QED
  BY <1>1, <1>2, <1>3, <1>4

(* Once Stop has returned no worker starts another hit, for any number of  *)
(* workers and wherever they stood: the list that Stop walks is complete.  *)
THEOREM OpenQuietAfterStop == Spec => QuietAfterStop
<1>1. Init => ToldInv
  BY DEF Init, ProcessInit, ToldInv, AfterStop, AfterRun
<1>2. TypeOK /\ ToldInv /\ [Next]_vars => ToldInv'
  BY ToldStep
<1>3. TypeOK /\ ToldInv /\ SpawnedRun /\ [Next]_vars =>
          [(ctl \in AfterStop) => \A w \in Workers : ~StartsHit(w)]_pc
  <2> SUFFICES ASSUME TypeOK, ToldInv, SpawnedRun, [Next]_vars, ctl \in AfterStop,
                      NEW w \in Workers, StartsHit(w)
               PROVE  FALSE
    OBVIOUS
  <2>1. w <= spawned /\ w \notin stopped
    BY OpenPoolStep, HitNeedsLeave DEF StartsHit, TypeOK
  <2> QED
    BY <2>1 DEF ToldInv, Workers, TypeOK, PoolTypeOK
<1>4. Spec => []SpawnedRun
  <2>1. PoolInv => SpawnedRun
    BY DEF PoolInv
  <2> QED
    BY <2>1, OpenImplementsPool, PoolInvariant, PTL
<1> QED
  BY <1>1, <1>2, <1>3, <1>4, OpenTypeCorrect, PTL DEF Spec, QuietAfterStop

-----------------------------------------------------------------------------
(* What happens to the entries of a schedule: no entry is hit twice, while *)
(* the schedule runs none is lost, and at its end only as many as there    *)
(* were on their way.                                                      *)

(* The numbers that the invariant compares.                                *)
LEMMA DispatchTypes ==
    ASSUME TypeOK
    PROVE  /\ gen.cnt \in Nat
           /\ slot \in [Workers -> Slots]
           /\ \A w \in Workers : slot[w].entry \in Nat
           /\ pc \in [Workers -> PCs]
           /\ writing \in Nat \cup {Idle}
           /\ recorded \subseteq Nat
           /\ current.entry \in Nat
           /\ Unscheduled.entry = 0
           /\ Idle = -1
BY DEF TypeOK, PoolTypeOK, GenTypeOK, OpenTypeOK, Slots, Unscheduled, Idle

(* A step that moves no entry: what the workers, the output and the        *)
(* results hold is unchanged, and Run offers nothing new.                  *)
Unmoved ==
    /\ UNCHANGED <<slot, writing, recorded>>
    /\ gen'.cnt = gen.cnt
    /\ Offering' => Offering /\ current' = current
    /\ \A w \in Workers : (pc'[w] = "pushed") <=> (pc[w] = "pushed")
    /\ \A w \in Workers : pc'[w] \in EmptyHanded => pc[w] \in EmptyHanded

(* Such a step keeps the invariant.                                        *)
LEMMA UnmovedDispatch ==
    ASSUME DispatchInv, Unmoved
    PROVE  DispatchInv'
<1>1. InHand' = InHand \/ InHand' = {}
  BY DEF Unmoved, InHand
<1>2. AtMostOnce'
  BY <1>1 DEF Unmoved, DispatchInv, AtMostOnce, Pending
<1> QED
  BY <1>2 DEF Unmoved, DispatchInv

(* The steps of a worker that move no entry.                               *)
LEMMA WorkerUnmoved ==
    ASSUME TypeOK, NEW w \in Workers, WorkerAction(w), WorkerStep(w),
           ~Skip(w), ~PushResult(w), ~EndIteration(w)
    PROVE  Unmoved
<1>1. UNCHANGED <<slot, writing, recorded, gen, ctl, current>>
  BY DEF WorkerAction, WorkerStep, BeginIteration, Finish, TakePayload, Starve, FallAsleep,
     NoDelay, Wake, BeginBusy, Punch, Measure, EndBusy, processVars, schedVars, openVars
<1>2. PICK p \in PCs : /\ pc' = [pc EXCEPT ![w] = p]
                       /\ p # "pushed" /\ pc[w] # "pushed"
                       /\ p \in EmptyHanded => pc[w] \in EmptyHanded
  BY DEF WorkerStep, BeginIteration, Finish, TakePayload, Starve, FallAsleep, NoDelay, Wake,
     BeginBusy, Punch, Measure, EndBusy, Goto, PCs, EmptyHanded
<1> QED
  BY <1>1, <1>2, DispatchTypes DEF Unmoved, Offering

(* A worker that leaves its iteration holds nothing any more; one that     *)
(* finds the schedule closed receives nothing.                             *)
LEMMA ClearedDispatch ==
    ASSUME TypeOK, DispatchInv, NEW w \in Workers, NEW p \in PCs,
           slot' = [slot EXCEPT ![w] = Unscheduled],
           pc' = [pc EXCEPT ![w] = p],
           UNCHANGED <<writing, recorded, gen, ctl, current>>
    PROVE  DispatchInv'
<1>0. /\ slot'[w].entry = 0
      /\ \A v \in Workers : v # w => slot'[v] = slot[v] /\ pc'[v] = pc[v]
      /\ \A v \in Workers : slot'[v].entry \in Nat
  BY DispatchTypes
<1>1. InHand' = InHand /\ Offering' = Offering
  BY DEF InHand, Offering
<1>2. AtMostOnce'
  <2> SUFFICES ASSUME NEW u \in Workers, slot'[u].entry # 0, Pending(u, slot[u].entry)'
               PROVE  /\ slot'[u].entry \notin InHand' \cup {writing'} \cup recorded'
                      /\ \A v \in Workers \ {u} : ~Pending(v, slot[u].entry)'
    BY DEF AtMostOnce
  <2>1. u # w /\ slot[u].entry # 0 /\ Pending(u, slot[u].entry)
    BY <1>0 DEF Pending
  <2>2. /\ slot[u].entry \notin InHand \cup {writing} \cup recorded
        /\ \A v \in Workers \ {u} : ~Pending(v, slot[u].entry)
    BY <2>1 DEF DispatchInv, AtMostOnce
  <2> QED
    BY <1>0, <1>1, <2>1, <2>2 DEF Pending
<1>3. \A v \in Workers : slot'[v].entry <= slot[v].entry
  BY <1>0, DispatchTypes
<1>4. \A v \in Workers : slot'[v].entry <= gen'.cnt
  BY <1>0, <1>3, DispatchTypes DEF DispatchInv
<1>5. Offering' => \A v \in Workers : slot'[v].entry < gen'.cnt
  BY <1>0, <1>1, <1>3, DispatchTypes DEF DispatchInv
<1> QED
  BY <1>0, <1>1, <1>2, <1>4, <1>5 DEF DispatchInv

(* A push moves the entry from the worker to the output.                   *)
LEMMA PushDispatch ==
    ASSUME TypeOK, DispatchInv, NEW w \in Workers, PushResult(w),
           UNCHANGED <<recorded, gen, ctl, current>>
    PROVE  DispatchInv'
<1>0. /\ slot' = slot
      /\ writing' = slot[w].entry
      /\ pc[w] = "push" /\ pc'[w] = "pushed"
      /\ \A v \in Workers : v # w => pc'[v] = pc[v]
  BY DispatchTypes DEF PushResult, Goto
<1>1. InHand' = InHand /\ Offering' = Offering
  BY DEF InHand, Offering
<1>2. AtMostOnce'
  <2> SUFFICES ASSUME NEW u \in Workers, slot[u].entry # 0, Pending(u, slot[u].entry)'
               PROVE  /\ slot[u].entry \notin InHand' \cup {writing'} \cup recorded'
                      /\ \A v \in Workers \ {u} : ~Pending(v, slot[u].entry)'
    BY <1>0 DEF AtMostOnce
  <2>1. u # w /\ Pending(u, slot[u].entry)
    BY <1>0 DEF Pending
  <2>2. /\ slot[u].entry \notin InHand \cup {writing} \cup recorded
        /\ \A v \in Workers \ {u} : ~Pending(v, slot[u].entry)
    BY <2>1 DEF DispatchInv, AtMostOnce
  <2>3. slot[u].entry # slot[w].entry
    BY <1>0, <2>1, <2>2 DEF Pending
  <2> QED
    BY <1>0, <1>1, <2>2, <2>3 DEF Pending
<1>3. \A v \in Workers : pc'[v] \in EmptyHanded => slot'[v].entry = 0
  BY <1>0 DEF DispatchInv, EmptyHanded
<1> QED
  BY <1>0, <1>1, <1>2, <1>3 DEF DispatchInv

(* The output moves it on to the results.                                  *)
LEMMA BackgroundDispatch ==
    ASSUME TypeOK, DispatchInv, Background
    PROVE  DispatchInv'
<1>0. /\ UNCHANGED <<slot, pc, gen, ctl, current>>
      /\ writing' = Idle /\ writing # Idle
      /\ recorded' = recorded \/ (recorded' = recorded \cup {writing} /\ writing # 0)
  BY DEF Background, WriteResult, processVars, schedVars
<1>1. InHand' = InHand /\ Offering' = Offering
  BY <1>0 DEF InHand, Offering
<1>2. AtMostOnce'
  BY <1>0, <1>1, DispatchTypes DEF DispatchInv, AtMostOnce, Pending
<1>3. writing' <= gen'.cnt /\ (Offering' => writing' < gen'.cnt)
  BY <1>0, DispatchTypes
<1>4. \A e \in recorded' : e <= gen'.cnt
  BY <1>0 DEF DispatchInv
<1>5. Offering' => \A e \in recorded' : e < gen'.cnt
  BY <1>0, <1>1 DEF DispatchInv
<1> QED
  BY <1>0, <1>1, <1>2, <1>3, <1>4, <1>5 DEF DispatchInv

(* The next entry is newer than all that are on their way.                 *)
LEMMA NextOffsetDispatch ==
    ASSUME TypeOK, DispatchInv, NextOffset
    PROVE  DispatchInv'
<1>1. CASE gen.pc = "closed" /\ ctl' = "stopping" /\ UNCHANGED <<schedVars, current>>
  <2>1. Unmoved
    BY <1>1 DEF NextOffset, Unmoved, Offering, poolVars, schedVars
  <2> QED
    BY <2>1, UnmovedDispatch
<1>2. CASE SendOffset /\ current' = [offset |-> gen.accum, entry |-> gen'.cnt] /\ ctl' = "check"
  <2>0. /\ UNCHANGED <<slot, pc, writing, recorded>>
        /\ gen'.cnt = gen.cnt + 1
        /\ current'.entry = gen'.cnt
        /\ Offering' /\ InHand' = {gen'.cnt}
    BY <1>2 DEF NextOffset, SendOffset, TypeOK, GenTypeOK, InHand, Offering, poolVars, openVars
  <2>1. /\ \A w \in Workers : slot'[w].entry < gen'.cnt
        /\ writing' < gen'.cnt
        /\ \A e \in recorded' : e < gen'.cnt
    BY <2>0, DispatchTypes DEF DispatchInv
  <2>2. /\ \A w \in Workers : slot'[w].entry <= gen'.cnt
        /\ writing' <= gen'.cnt
        /\ \A e \in recorded' : e <= gen'.cnt
    BY <2>0, <2>1, DispatchTypes
  <2>3. AtMostOnce'
    BY <2>0, <2>1, DispatchTypes DEF DispatchInv, AtMostOnce, Pending
  <2> QED
    BY <2>0, <2>1, <2>2, <2>3 DEF DispatchInv
<1> QED
  BY <1>1, <1>2 DEF NextOffset

(* The receiver of an entry holds nothing else, and Run does not offer the *)
(* entry again.                                                            *)
LEMMA HandOverDispatch ==
    ASSUME TypeOK, DispatchInv, NEW w \in Workers, HandOver(w)
    PROVE  DispatchInv'
<1>0. /\ Offering
      /\ slot'[w] = current /\ pc'[w] = "payload"
      /\ \A v \in Workers : v # w => slot'[v] = slot[v] /\ pc'[v] = pc[v]
      /\ UNCHANGED <<writing, recorded, gen>>
      /\ ~Offering' /\ InHand' = {}
      /\ current.entry = gen.cnt
  BY DispatchTypes DEF HandOver, ReceiveSlot, Goto, Offering, InHand, DispatchInv, schedVars, openVars
<1>1. AtMostOnce'
  <2> SUFFICES ASSUME NEW u \in Workers, slot'[u].entry # 0, Pending(u, slot[u].entry)'
               PROVE  /\ slot'[u].entry \notin {writing} \cup recorded
                      /\ \A v \in Workers \ {u} : ~Pending(v, slot[u].entry)'
    BY <1>0 DEF AtMostOnce
  <2>1. CASE u = w
    BY <1>0, <2>1, DispatchTypes DEF DispatchInv, Pending
  <2>2. CASE u # w
    <3>1. /\ slot[u].entry \notin InHand \cup {writing} \cup recorded
          /\ \A v \in Workers \ {u} : ~Pending(v, slot[u].entry)
      BY <1>0, <2>2 DEF DispatchInv, AtMostOnce, Pending
    <3>2. slot[u].entry # current.entry
      BY <1>0, <3>1 DEF InHand
    <3> QED
      BY <1>0, <2>2, <3>1, <3>2 DEF Pending
  <2> QED
    BY <2>1, <2>2
<1>2. \A v \in Workers : slot'[v].entry <= gen'.cnt
  BY <1>0, DispatchTypes DEF DispatchInv
<1>3. \A v \in Workers : pc'[v] \in EmptyHanded => slot'[v].entry = 0
  BY <1>0 DEF DispatchInv, EmptyHanded
<1> QED
  BY <1>0, <1>1, <1>2, <1>3 DEF DispatchInv

(* The steps that move no entry at all: all but the five above.  Of Run,   *)
(* they neither begin nor end an offer, unless they end the schedule.      *)
LEMMA OtherUnmoved ==
    ASSUME TypeOK, SpawnedRun,
           \/ StartRun \/ SpawnInitial \/ CheckOffset \/ NobodyReady \/ Grow
           \/ WindDownStep \/ GeneratorStep \/ Interrupt \/ SignalStep \/ Clock
           \/ UNCHANGED vars
    PROVE  /\ Unmoved
           /\ ~ScheduleClosed' => ~ScheduleClosed /\ (Offering => Offering')
           /\ ~ScheduleClosed' => UNCHANGED <<stopped, outputOpen>>
<1>1. CASE /\ SpawnWorker
           /\ UNCHANGED <<schedVars, openVars, stopping, done, handler, outputOpen>>
           /\ \/ ctl = "spawning" /\ ctl' = "spawning"
              \/ ctl = "grow" /\ ctl' = "blocked"
  <2>0. spawned \in Nat /\ spawned + 1 \in Workers
    BY <1>1, PoolAssumption DEF SpawnWorker, TypeOK, PoolTypeOK, Workers
  <2>1. /\ UNCHANGED <<slot, writing, recorded, gen, current, stopped, outputOpen>>
        /\ pc' = [pc EXCEPT ![spawned + 1] = "loop"]
        /\ pc[spawned + 1] = "unborn"
    <3>1. UNCHANGED <<slot, writing, recorded, gen, current, stopped, outputOpen>>
      BY <1>1 DEF SpawnWorker, schedVars, openVars
    <3>2. pc' = [pc EXCEPT ![spawned + 1] = "loop"]
      BY <1>1 DEF SpawnWorker, Goto
    <3>3. pc[spawned + 1] = "unborn"
      BY <2>0 DEF SpawnedRun
    <3> QED
      BY <3>1, <3>2, <3>3
  <2>2. \A w \in Workers : pc'[w] = pc[w] \/ (pc[w] = "unborn" /\ pc'[w] = "loop")
    BY <2>0, <2>1, DispatchTypes
  <2>3. Unmoved
    BY <1>1, <2>1, <2>2 DEF Unmoved, Offering, EmptyHanded
  <2> QED
    BY <1>1, <2>1, <2>3 DEF Offering, ScheduleClosed, AfterStop, AfterRun
<1>2. CASE /\ UNCHANGED <<slot, writing, recorded, pc, current, stopped, outputOpen>>
           /\ gen'.cnt = gen.cnt
           /\ \/ ctl' = ctl \/ ctl' = "stopping"
              \/ ctl \in {"setup", "spawning"} /\ ctl' \in {"spawning", "range"}
              \/ Offering /\ ctl' \in {"offer", "grow", "blocked"}
  <2>1. Unmoved
    BY <1>2 DEF Unmoved, Offering
  <2>2. /\ ~ScheduleClosed' => ctl' # "stopping"
        /\ ctl \in {"setup", "spawning"} => ~ScheduleClosed
        /\ Offering => ~ScheduleClosed
    BY DEF Offering, ScheduleClosed, AfterStop, AfterRun
  <2>3. ~ScheduleClosed' => ~ScheduleClosed /\ (Offering => Offering')
    <3>1. CASE ctl' = ctl
      BY <3>1 DEF Offering, ScheduleClosed
    <3>2. CASE ctl \in {"setup", "spawning"}
      BY <2>2, <3>2 DEF Offering
    <3>3. CASE Offering /\ ctl' \in {"offer", "grow", "blocked"}
      BY <2>2, <3>3 DEF Offering
    <3> QED
      BY <1>2, <2>2, <3>1, <3>2, <3>3
  <2> QED
    BY <1>2, <2>1, <2>3
<1>3. CASE StartRun \/ NobodyReady
  BY <1>2, <1>3 DEF StartRun, NobodyReady, Offering, poolVars, schedVars, openVars
<1>4. CASE SpawnInitial
  <2>1. CASE spawned < InitialWorkers
    <3>1. /\ SpawnWorker
          /\ UNCHANGED <<schedVars, openVars, stopping, done, handler, outputOpen>>
          /\ ctl = "spawning" /\ ctl' = "spawning"
      BY <1>4, <2>1 DEF SpawnInitial
    <3> QED
      BY <1>1, <3>1
  <2>2. CASE ~(spawned < InitialWorkers)
    BY <1>2, <1>4, <2>2 DEF SpawnInitial, poolVars, schedVars, openVars
  <2> QED
    BY <2>1, <2>2
<1>5. CASE Grow
  <2>1. CASE NotMaxed /\ status.sleeping <= 0
    <3>1. /\ SpawnWorker
          /\ UNCHANGED <<schedVars, openVars, stopping, done, handler, outputOpen>>
          /\ ctl = "grow" /\ ctl' = "blocked"
      BY <1>5, <2>1 DEF Grow
    <3> QED
      BY <1>1, <3>1
  <2>2. CASE ~(NotMaxed /\ status.sleeping <= 0)
    BY <1>2, <1>5, <2>2 DEF Grow, Offering, poolVars, schedVars, openVars
  <2> QED
    BY <2>1, <2>2
<1>6. CASE CheckOffset
  BY <1>2, <1>6 DEF CheckOffset, ProcessEnds, Offering, poolVars, schedVars
<1>7. CASE WindDownStep
  <2>1. /\ UNCHANGED <<slot, writing, recorded, pc, gen, current>>
        /\ ctl \in {"stopping", "stopped", "returned", "output_closed"}
        /\ ctl' \in {"stopping", "stopped", "returned", "output_closed"}
    BY <1>7 DEF WindDownStep, WindDown, StopNextWorker, StopWorker, StopReturns, RunReturns,
       CloseOutput, MainReturns, ProcessEnds, poolVars, schedVars, openVars, processVars
  <2> QED
    BY <2>1 DEF Unmoved, Offering, ScheduleClosed, AfterStop, AfterRun
<1>8. CASE GeneratorStep
  <2>1. gen'.cnt = gen.cnt
    BY <1>8 DEF GeneratorStep, GenerateOffset, GeneratorEnds, TypeOK, GenTypeOK
  <2> QED
    BY <1>2, <1>8, <2>1 DEF GeneratorStep, ProcessEnds, poolVars, processVars, openVars
<1>9. CASE Interrupt \/ SignalStep \/ Clock \/ UNCHANGED vars
  BY <1>2, <1>9 DEF Interrupt, SignalArrives, SignalStep, SignalBeforeRun, InterruptReturns,
     ProcessEnds, Clock, Tick, vars, poolVars, schedVars, processVars, openVars
<1> QED
  BY <1>3, <1>4, <1>5, <1>6, <1>7, <1>8, <1>9

(* Every step of the open workload keeps the invariant.                    *)
LEMMA DispatchStep ==
    ASSUME TypeOK, SpawnedRun, DispatchInv, [Next]_vars
    PROVE  DispatchInv'
<1>1. ASSUME NEW w \in Workers, WorkerAction(w)
      PROVE  DispatchInv'
  <2>0. UNCHANGED <<recorded, gen, ctl, current>>
    BY <1>1 DEF WorkerAction, processVars, schedVars, openVars
  <2>1. CASE Skip(w) \/ EndIteration(w)
    BY <2>0, <2>1, ClearedDispatch DEF Skip, EndIteration, Goto, PCs
  <2>2. CASE PushResult(w)
    BY <2>0, <2>2, PushDispatch
  <2>3. CASE ReceiveClosed(w)
    BY <2>0, <2>3, ClearedDispatch DEF ReceiveClosed, ReceiveSlot, Goto, PCs
  <2>4. CASE WorkerStep(w) /\ ~Skip(w) /\ ~PushResult(w) /\ ~EndIteration(w)
    BY <1>1, <2>4, WorkerUnmoved, UnmovedDispatch
  <2> QED
    BY <1>1, <2>1, <2>2, <2>3, <2>4 DEF WorkerAction
<1>2. CASE NextOffset
  BY <1>2, NextOffsetDispatch
<1>3. CASE \E w \in Workers : HandOver(w)
  BY <1>3, HandOverDispatch
<1>4. CASE Background
  BY <1>4, BackgroundDispatch
<1>5. CASE \/ StartRun \/ SpawnInitial \/ CheckOffset \/ NobodyReady \/ Grow
           \/ WindDownStep \/ GeneratorStep \/ Interrupt \/ SignalStep \/ Clock
           \/ UNCHANGED vars
  BY <1>5, OtherUnmoved, UnmovedDispatch
<1> QED
  BY <1>1, <1>2, <1>3, <1>4, <1>5 DEF Next, RunStep, Terminated

(* No entry is anywhere at the start.                                      *)
LEMMA DispatchStart == Init => DispatchInv
<1> SUFFICES ASSUME Init PROVE DispatchInv
  OBVIOUS
<1>1. /\ slot = [w \in Workers |-> Unscheduled]
      /\ Unscheduled.entry = 0
      /\ writing = -1 /\ recorded = {} /\ gen.cnt = 0
      /\ ctl = "setup"
  BY DEF Init, PoolInit, ProcessInit, ScheduleInit, Idle, Unscheduled
<1> QED
  BY <1>1 DEF DispatchInv, AtMostOnce, Offering

(* No entry of the schedule is hit twice, for every number of workers and  *)
(* every schedule: it is offered twice by Run, by the select and by the    *)
(* plain send, and passed on by four goroutines.                           *)
THEOREM EntriesHitOnce == Spec => []AtMostOnce
<1>1. DispatchInv => AtMostOnce
  BY DEF DispatchInv
<1>2. Spec => []SpawnedRun
  <2>1. PoolInv => SpawnedRun
    BY DEF PoolInv
  <2> QED
    BY <2>1, OpenImplementsPool, PoolInvariant, PTL
<1>3. TypeOK /\ SpawnedRun /\ DispatchInv /\ [Next]_vars => DispatchInv'
  BY DispatchStep
<1> QED
  BY <1>1, <1>2, <1>3, DispatchStart, OpenTypeCorrect, PTL DEF Spec

-----------------------------------------------------------------------------
(* Entry e is at one of the places where an entry can be.                  *)
Held(e) ==
    \/ e \in InHand \cup {writing} \cup recorded
    \/ \E w \in Workers : Pending(w, e)

(* A step that keeps every entry somewhere keeps the invariant.            *)
LEMMA HeldIsNotLost ==
    ASSUME LossInv, gen'.cnt = gen.cnt,
           ~ScheduleClosed' => /\ ~ScheduleClosed
                               /\ UNCHANGED <<stopped, outputOpen>>
                               /\ \A e \in 1 .. gen.cnt : Held(e) => Held(e)'
    PROVE  LossInv'
<1>1. ASSUME ~ScheduleClosed'
      PROVE  \A e \in 1 .. gen.cnt : Held(e)
  BY <1>1 DEF LossInv, NoEntryLost, Held
<1>2. ASSUME ~ScheduleClosed'
      PROVE  \A e \in 1 .. gen'.cnt : Held(e)'
  BY <1>1, <1>2
<1>3. NoEntryLost'
  BY <1>2 DEF NoEntryLost, Held
<1> QED
  BY <1>3 DEF LossInv

(* The steps that move no entry hold on to it.                             *)
LEMMA UnmovedHeld ==
    ASSUME Unmoved, Offering => Offering', NEW e, Held(e)
    PROVE  Held(e)'
<1>1. InHand' = InHand \/ InHand = {}
  BY DEF Unmoved, InHand
<1> QED
  BY <1>1 DEF Unmoved, Held, Pending

(* A step of a worker passes its entry on to the output, at most.  While   *)
(* the schedule runs no worker is stopped, so none leaves its entry.       *)
LEMMA WorkerLoss ==
    ASSUME TypeOK, LossInv, NEW w \in Workers, WorkerAction(w)
    PROVE  LossInv'
<1>0. UNCHANGED <<recorded, gen, ctl, current, outputOpen>>
  BY DEF WorkerAction, processVars, schedVars, openVars
<1>1. InHand' = InHand /\ Offering' = Offering /\ ScheduleClosed' = ScheduleClosed
  BY <1>0 DEF InHand, Offering, ScheduleClosed
<1>2. stopped' = stopped
  BY DEF WorkerAction, WorkerStep, BeginIteration, Finish, TakePayload, Starve, FallAsleep,
     NoDelay, Wake, Skip, BeginBusy, Punch, Measure, EndBusy, PushResult, EndIteration,
     ReceiveClosed, ReceiveSlot
<1> SUFFICES ASSUME ~ScheduleClosed, NEW e \in 1 .. gen.cnt, Held(e)
             PROVE  Held(e)'
  BY <1>0, <1>1, <1>2, HeldIsNotLost
<1>3. ~Skip(w) /\ ~ReceiveClosed(w)
  BY DEF LossInv, Skip, ReceiveClosed
<1>4. CASE PushResult(w)
  <2>1. /\ slot' = slot /\ writing = Idle /\ writing' = slot[w].entry
        /\ \A v \in Workers : v # w => pc'[v] = pc[v]
    BY <1>4, DispatchTypes DEF PushResult, Goto
  <2>2. e # writing
    BY <2>1, DispatchTypes
  <2> QED
    BY <1>0, <1>1, <2>1, <2>2 DEF Held, Pending
<1>5. CASE EndIteration(w)
  <2>1. /\ pc[w] = "pushed" /\ writing' = writing
        /\ \A v \in Workers : v # w => slot'[v] = slot[v] /\ pc'[v] = pc[v]
    BY <1>5, DispatchTypes DEF EndIteration, Goto
  <2> QED
    BY <1>0, <1>1, <2>1 DEF Held, Pending
<1>6. CASE WorkerStep(w) /\ ~Skip(w) /\ ~PushResult(w) /\ ~EndIteration(w)
  BY <1>1, <1>6, WorkerUnmoved, UnmovedHeld
<1> QED
  BY <1>3, <1>4, <1>5, <1>6 DEF WorkerAction

(* The results take what the output holds, as long as it is open.          *)
LEMMA BackgroundLoss ==
    ASSUME TypeOK, LossInv, Background
    PROVE  LossInv'
<1>0. UNCHANGED <<slot, pc, stopped, gen, ctl, current, outputOpen>>
  BY DEF Background, WriteResult, processVars, schedVars
<1>1. InHand' = InHand /\ ScheduleClosed' = ScheduleClosed
  BY <1>0 DEF InHand, Offering, ScheduleClosed
<1> SUFFICES ASSUME ~ScheduleClosed, NEW e \in 1 .. gen.cnt, Held(e)
             PROVE  Held(e)'
  BY <1>0, <1>1, HeldIsNotLost
<1>2. e # 0
  BY DispatchTypes
<1>3. recorded' = IF writing # 0 THEN recorded \cup {writing} ELSE recorded
  BY DEF LossInv, Background
<1> QED
  BY <1>0, <1>1, <1>2, <1>3 DEF Held, Pending

(* The receiver held nothing before, and takes the entry out of the hand   *)
(* of Run.                                                                 *)
LEMMA HandOverLoss ==
    ASSUME TypeOK, DispatchInv, LossInv, NEW w \in Workers, HandOver(w)
    PROVE  LossInv'
<1>0. /\ UNCHANGED <<writing, recorded, gen, stopped, outputOpen>>
      /\ slot'[w] = current /\ pc'[w] = "payload" /\ slot[w].entry = 0
      /\ \A v \in Workers : v # w => slot'[v] = slot[v] /\ pc'[v] = pc[v]
      /\ InHand = {current.entry}
  BY DispatchTypes DEF HandOver, ReceiveSlot, Goto, Offering, InHand, DispatchInv, EmptyHanded,
     schedVars, openVars
<1>1. ~ScheduleClosed
  BY DEF HandOver, ScheduleClosed, AfterStop, AfterRun
<1> SUFFICES ASSUME NEW e \in 1 .. gen.cnt, Held(e)
             PROVE  Held(e)'
  BY <1>0, <1>1, HeldIsNotLost
<1>2. e # 0
  BY DispatchTypes
<1>3. CASE e = current.entry
  BY <1>0, <1>3 DEF Held, Pending
<1>4. CASE e \in {writing} \cup recorded
  BY <1>0, <1>4 DEF Held
<1>5. CASE \E v \in Workers : Pending(v, e)
  BY <1>0, <1>2, <1>5 DEF Held, Pending
<1> QED
  BY <1>0, <1>3, <1>4, <1>5 DEF Held

(* The next entry is in the hand of Run, which was empty.                  *)
LEMMA NextOffsetLoss ==
    ASSUME TypeOK, LossInv, NextOffset
    PROVE  LossInv'
<1>0. ctl = "range" /\ UNCHANGED <<slot, pc, writing, recorded, stopped, outputOpen>>
  BY DEF NextOffset, poolVars
<1>1. CASE gen.pc = "closed" /\ ctl' = "stopping" /\ UNCHANGED <<schedVars, current>>
  BY <1>1 DEF LossInv, NoEntryLost, ScheduleClosed
<1>2. CASE SendOffset /\ current' = [offset |-> gen.accum, entry |-> gen'.cnt] /\ ctl' = "check"
  <2>0. /\ gen.cnt \in Nat /\ gen'.cnt = gen.cnt + 1
        /\ InHand' = {gen'.cnt} /\ InHand = {}
        /\ ~ScheduleClosed
    BY <1>0, <1>2 DEF SendOffset, TypeOK, GenTypeOK, InHand, Offering, ScheduleClosed, AfterStop,
       AfterRun
  <2>1. \A e \in 1 .. gen.cnt : Held(e)
    BY <2>0 DEF LossInv, NoEntryLost, Held
  <2>2. \A e \in 1 .. gen.cnt : Held(e)'
    BY <1>0, <2>0, <2>1 DEF Held, Pending
  <2>3. \A e \in 1 .. gen'.cnt : e \in 1 .. gen.cnt \/ e = gen'.cnt
    BY <2>0
  <2>4. \A e \in 1 .. gen'.cnt : Held(e)'
    BY <2>0, <2>2, <2>3 DEF Held
  <2>5. NoEntryLost'
    BY <2>4 DEF NoEntryLost, Held
  <2> QED
    BY <1>0, <2>0, <2>5 DEF LossInv
<1> QED
  BY <1>1, <1>2 DEF NextOffset

(* Every step of the open workload keeps the invariant.                    *)
LEMMA LossStep ==
    ASSUME TypeOK, SpawnedRun, DispatchInv, LossInv, [Next]_vars
    PROVE  LossInv'
<1>1. CASE \E w \in Workers : WorkerAction(w)
  BY <1>1, WorkerLoss
<1>2. CASE NextOffset
  BY <1>2, NextOffsetLoss
<1>3. CASE \E w \in Workers : HandOver(w)
  BY <1>3, HandOverLoss
<1>4. CASE Background
  BY <1>4, BackgroundLoss
<1>5. CASE \/ StartRun \/ SpawnInitial \/ CheckOffset \/ NobodyReady \/ Grow
           \/ WindDownStep \/ GeneratorStep \/ Interrupt \/ SignalStep \/ Clock
           \/ UNCHANGED vars
  <2>1. /\ Unmoved
        /\ ~ScheduleClosed' => ~ScheduleClosed /\ (Offering => Offering')
        /\ ~ScheduleClosed' => UNCHANGED <<stopped, outputOpen>>
    BY <1>5, OtherUnmoved
  <2>2. ASSUME ~ScheduleClosed'
        PROVE  \A e \in 1 .. gen.cnt : Held(e) => Held(e)'
    BY <2>1, <2>2, UnmovedHeld
  <2>3. gen'.cnt = gen.cnt
    BY <2>1 DEF Unmoved
  <2> QED
    BY <2>1, <2>2, <2>3, HeldIsNotLost
<1> QED
  BY <1>1, <1>2, <1>3, <1>4, <1>5 DEF Next, RunStep, Terminated

(* While the schedule runs, no entry of it is lost, for every schedule and *)
(* every number of workers: Run waits for a worker to take the entry, the  *)
(* worker keeps it until its result is pushed, and the output records it.  *)
THEOREM NoEntryIsLost == Spec => []NoEntryLost
<1>1. Init => LossInv
  BY DEF Init, PoolInit, ProcessInit, ScheduleInit, LossInv, NoEntryLost
<1>2. Spec => []SpawnedRun
  <2>1. PoolInv => SpawnedRun
    BY DEF PoolInv
  <2> QED
    BY <2>1, OpenImplementsPool, PoolInvariant, PTL
<1>3. TypeOK /\ SpawnedRun /\ DispatchInv /\ [Next]_vars => DispatchInv'
  BY DispatchStep
<1>4. TypeOK /\ SpawnedRun /\ DispatchInv /\ LossInv /\ [Next]_vars => LossInv'
  BY LossStep
<1>5. LossInv => NoEntryLost
  BY DEF LossInv
<1> QED
  BY <1>1, <1>2, <1>3, <1>4, <1>5, DispatchStart, OpenTypeCorrect, PTL DEF Spec

-----------------------------------------------------------------------------
(* The entries without a result.                                           *)
Missing == (1 .. gen.cnt) \ recorded

(* They are finitely many.                                                 *)
LEMMA MissingFinite ==
    ASSUME TypeOK
    PROVE  /\ IsFiniteSet(Missing) /\ Cardinality(Missing) \in Nat
           /\ spawned \in Nat
<1>1. gen.cnt \in Nat /\ spawned \in Nat
  BY DEF TypeOK, GenTypeOK, PoolTypeOK
<1>2. IsFiniteSet(1 .. gen.cnt)
  BY <1>1, FS_Interval
<1>3. Missing \in SUBSET (1 .. gen.cnt)
  BY DEF Missing
<1>4. IsFiniteSet(Missing)
  BY <1>2, <1>3, FS_Subset
<1> QED
  BY <1>1, <1>4, FS_CardinalityType

(* While the schedule runs, each of them is held by a worker that runs, by *)
(* the output or by Run, and each of those holds one.                      *)
LEMMA MissingAreHeld ==
    ASSUME TypeOK, SpawnedRun, DispatchInv, NoEntryLost, ~ScheduleClosed
    PROVE  TailBounded
<1> DEFINE n == spawned + 2
           holder == [i \in 1 .. n |-> IF i <= spawned THEN slot[i].entry
                                       ELSE IF i = spawned + 1 THEN writing
                                       ELSE current.entry]
           held == Range(holder)
<1>0. /\ spawned \in Nat /\ spawned <= WorkerBound /\ n \in Nat
      /\ WorkerBound \in Nat /\ Workers = 1 .. WorkerBound
  BY PoolAssumption DEF TypeOK, PoolTypeOK, Workers
<1>1. holder \in Surjection(1 .. n, held)
  BY DEF Surjection, Range
<1>2. \A i \in 1 .. n : holder[i] \in held
  BY <1>1 DEF Surjection
<1>3. Missing \subseteq held
  <2> SUFFICES ASSUME NEW e \in Missing PROVE e \in held
    OBVIOUS
  <2>1. e \in Nat /\ e # 0 /\ e \in 1 .. gen.cnt /\ e \notin recorded
    BY DispatchTypes DEF Missing
  <2>2. CASE e = writing
    <3>1. spawned + 1 \in 1 .. n /\ holder[spawned + 1] = e
      BY <1>0, <2>2
    <3> HIDE DEF holder, held
    <3> QED
      BY <1>2, <3>1
  <2>3. CASE e \in InHand
    <3>1. n \in 1 .. n /\ holder[n] = e
      BY <1>0, <2>3 DEF InHand
    <3> HIDE DEF holder, held
    <3> QED
      BY <1>2, <3>1
  <2>4. CASE \E w \in Workers : Pending(w, e)
    <3>1. PICK w \in Workers : slot[w].entry = e
      BY <2>4 DEF Pending
    <3>2. pc[w] # "unborn"
      BY <2>1, <3>1 DEF DispatchInv, EmptyHanded
    <3>3. w <= spawned
      BY <3>2 DEF SpawnedRun
    <3>4. w \in 1 .. n /\ holder[w] = e
      BY <1>0, <3>1, <3>3
    <3> HIDE DEF holder, held
    <3> QED
      BY <1>2, <3>4
  <2> QED
    BY <2>1, <2>2, <2>3, <2>4 DEF NoEntryLost
<1> HIDE DEF holder, held
<1>4. IsFiniteSet(1 .. n) /\ Cardinality(1 .. n) = n
  <2> HIDE DEF n
  <2> QED
    BY <1>0, FS_Interval
<1>5. IsFiniteSet(held) /\ Cardinality(held) <= n
  BY <1>1, <1>4, FS_Surjection
<1>6. Cardinality(Missing) <= Cardinality(held) /\ Cardinality(held) \in Nat
  BY <1>3, <1>5, FS_Subset, FS_CardinalityType
<1> QED
  BY <1>0, <1>5, <1>6, MissingFinite DEF TailBounded, Missing

(* After its end no entry is added, no result is taken back and no worker  *)
(* goes, so no more is missing than at the end.                            *)
LEMMA MissingShrinks ==
    ASSUME TypeOK, SpawnedRun, [Next]_vars, ScheduleClosed', TailBounded, TypeOK'
    PROVE  TailBounded'
<1>1. gen'.cnt = gen.cnt /\ recorded \subseteq recorded' /\ spawned <= spawned'
  <2>0. spawned \in Nat /\ spawned <= spawned
    BY MissingFinite
  <2>1. ASSUME NEW w \in Workers, WorkerAction(w)
        PROVE  gen' = gen /\ recorded' = recorded /\ spawned' = spawned
    BY <2>1 DEF WorkerAction, processVars, schedVars, openVars, WorkerStep, BeginIteration, Finish,
       TakePayload, Starve, FallAsleep, NoDelay, Wake, Skip, BeginBusy, Punch, Measure, EndBusy,
       PushResult, EndIteration, ReceiveClosed, ReceiveSlot
  <2>2. CASE NextOffset
    BY <2>0, <2>2 DEF NextOffset, poolVars, schedVars, ScheduleClosed, AfterStop, AfterRun
  <2>3. ASSUME NEW w \in Workers, HandOver(w)
        PROVE  gen' = gen /\ recorded' = recorded /\ spawned' = spawned
    BY <2>3 DEF HandOver, ReceiveSlot, schedVars, openVars
  <2>4. CASE Background
    BY <2>0, <2>4 DEF Background, WriteResult, schedVars
  <2>5. CASE SpawnInitial \/ Grow
    BY <2>0, <2>5 DEF SpawnInitial, Grow, SpawnWorker, poolVars, schedVars, openVars
  <2>6. CASE GeneratorStep
    <3>1. gen'.cnt = gen.cnt
      BY <2>6 DEF GeneratorStep, GenerateOffset, GeneratorEnds, TypeOK, GenTypeOK
    <3> QED
      BY <2>0, <2>6, <3>1 DEF GeneratorStep, ProcessEnds, poolVars, openVars
  <2>7. CASE StartRun \/ CheckOffset \/ NobodyReady
    BY <2>0, <2>7 DEF StartRun, CheckOffset, NobodyReady, ProcessEnds, poolVars, schedVars, openVars
  <2>8. CASE WindDownStep
    BY <2>0, <2>8 DEF WindDownStep, WindDown, StopNextWorker, StopWorker, StopReturns, RunReturns,
       CloseOutput, MainReturns, ProcessEnds, poolVars, schedVars, openVars
  <2>9. CASE Interrupt \/ SignalStep \/ Clock \/ UNCHANGED vars
    BY <2>0, <2>9 DEF Interrupt, SignalStep, SignalBeforeRun, InterruptReturns, ProcessEnds, Clock,
       Tick, vars, poolVars, schedVars, openVars
  <2> QED
    BY <2>0, <2>1, <2>2, <2>3, <2>4, <2>5, <2>6, <2>7, <2>8, <2>9 DEF Next, RunStep, Terminated
<1>2. Missing' \in SUBSET Missing
  BY <1>1 DEF Missing
<1>3. IsFiniteSet(Missing) /\ Cardinality(Missing) \in Nat /\ spawned \in Nat
  BY MissingFinite
<1>4. Cardinality(Missing') <= Cardinality(Missing) /\ Cardinality(Missing') \in Nat
  BY <1>2, <1>3, FS_Subset, FS_CardinalityType
<1>5. spawned' \in Nat
  BY DEF TypeOK, PoolTypeOK
<1> QED
  BY <1>1, <1>3, <1>4, <1>5 DEF TailBounded, Missing

(* However a run ends, no more is missing from the results than an entry   *)
(* for every worker, one in the output and one in Run, for every schedule  *)
(* and every pool.  The bound is proved while the schedule runs, from the  *)
(* invariants of the other two theorems, and then only kept.               *)
THEOREM LossIsBounded == Spec => []TailBounded
<1>1. Init => LossInv
  BY DEF Init, PoolInit, ProcessInit, ScheduleInit, LossInv, NoEntryLost
<1>2. Spec => []SpawnedRun
  <2>1. PoolInv => SpawnedRun
    BY DEF PoolInv
  <2> QED
    BY <2>1, OpenImplementsPool, PoolInvariant, PTL
<1>3. TypeOK /\ SpawnedRun /\ DispatchInv /\ [Next]_vars => DispatchInv'
  BY DispatchStep
<1>4. TypeOK /\ SpawnedRun /\ DispatchInv /\ LossInv /\ [Next]_vars => LossInv'
  BY LossStep
<1>5. TypeOK /\ SpawnedRun /\ DispatchInv /\ LossInv => (~ScheduleClosed => TailBounded)
  BY MissingAreHeld DEF LossInv
<1>6. TypeOK /\ SpawnedRun /\ TailBounded /\ [Next]_vars /\ TypeOK' /\ ScheduleClosed'
          => TailBounded'
  BY MissingShrinks
<1>7. Init => ~ScheduleClosed
  BY DEF Init, ProcessInit, ScheduleClosed, AfterStop, AfterRun
<1> QED
  BY <1>1, <1>2, <1>3, <1>4, <1>5, <1>6, <1>7, DispatchStart, OpenTypeCorrect, PTL DEF Spec
=============================================================================
